---- MODULE Spec2Model ----
(***************************************************************************)
(* Model of the MANHA LoRa link: the satellite Link                        *)
(* (src/manha/satkit/lora.py), the MANHA telemetry task                    *)
(* (src/manha/satkit/manha.py), the ground-station Link                    *)
(* (src/manha/gs/lora.py) and the Packet framing                           *)
(* (src/manha/internals/comms/packet.py).                                  *)
(*                                                                         *)
(* Byte strings are sequences of integers 0..255 (ASCII codes).  Python's  *)
(* None and a raised ValueError are records of the same shape as the       *)
(* value, marked by a field (none, ok), or the integer -1.                 *)
(***************************************************************************)
EXTENDS Integers, Sequences, FiniteSets, TLC

(***************************************************************************)
(* Bounds of the model.                                                    *)
(***************************************************************************)
\* the two values of send_telemetry's max_size parameter that are exercised
MaxSizeSmall == 80
MaxSizeLarge == 110
\* number of telemetry sends (send_telemetry calls or MANHA task cycles)
MaxCalls == 2
\* number of commands the ground station issues
MaxCmds == 1
\* number of faults: frames the channel loses or corrupts, and transmissions
\* whose TX_DONE is not seen within the deadline
MaxFaults == 1
\* number of wrappers handed to the ground station in SpecReasm
MaxDeliveries == 4
\* frames of other stations the satellite hears
MaxHeard == 3
MaxFrameLen == 4
MaxStarts == 3
\* the largest argument of the set_tx_power calls exercised
MaxPowerArg == 25

(***************************************************************************)
(* Program constants.                                                      *)
(***************************************************************************)
LORA_ADDR == 11
BROADCAST == 255
\* wrapper overhead reserved by _send_multipart_json
RESERVED == 50
\* send_telemetry's default max_size
DEFAULT_MAX_SIZE == 200
\* values of a byte: what one element of the bytearray of an SPI write holds
BYTE == 256
\* RFM9x.set_tx_power: the range it clamps to, the power from which PA_DAC
\* is disabled, the 3 dBm taken off below it and the offset of PA_CONFIG
POWER_MIN == 5
POWER_MAX == 23
POWER_DAC_OFF == 20
DAC_GAIN == 3
PA_OFFSET == 5
\* tx_power of the Links' constructors
DEFAULT_TX_POWER == 14

(***************************************************************************)
(* ASCII.                                                                  *)
(***************************************************************************)
Ch == [quote |-> 34, bslash |-> 92, slash |-> 47, lbrace |-> 123,
       rbrace |-> 125, colon |-> 58, comma |-> 44, space |-> 32,
       zero |-> 48, nine |-> 57, cr |-> 13, lf |-> 10, tab |-> 9,
       x |-> 120, y |-> 121, z |-> 122, w |-> 119]

Whitespace == {32, 9, 10, 11, 12, 13}
Digits == 48..57

ACK_TAG == <<65, 67, 75, 58>>                    \* "ACK:"
CMD_TAG == <<67, 77, 68, 58>>                    \* "CMD:"
ACK3 == <<65, 67, 75>>                           \* b'ACK'
CMD3 == <<67, 77, 68>>                           \* b'CMD'
CRLF == <<13, 10>>                               \* "\r\n"
PING == <<80, 73, 78, 71>>                       \* "PING"
PONG == <<80, 79, 78, 71>>                       \* "PONG"
BEEP == <<66, 69, 69, 80>>                           \* a command name of the application
PING_OK == <<80, 73, 78, 71, 95, 79, 75>>        \* "PING_OK"
RESET_OK == <<82, 69, 83, 69, 84, 95, 79, 75>>   \* "RESET_OK"
KEY_PART == <<95, 112, 97, 114, 116>>            \* "_part"
KEY_TOTAL == <<95, 116, 111, 116, 97, 108>>      \* "_total"
KEY_DATA == <<100, 97, 116, 97>>                 \* "data"
\* "RESET"
RESET ==
    <<82, 69, 83, 69, 84>>

\* "RESET_ACK"
RESET_ACK ==
    <<82, 69, 83, 69, 84, 95, 65, 67, 75>>

\* "TXPOW="
TXPOW_TAG ==
    <<84, 88, 80, 79, 87, 61>>

\* "TX power set to "
TX_POWER_SET ==
    <<84, 88, 32, 112, 111, 119, 101, 114, 32, 115, 101, 116, 32, 116,
      111, 32>>

\* "dBm"
DBM ==
    <<100, 66, 109>>

\* "TX power must be between 5 and 23dBm"
TX_POWER_RANGE ==
    <<84, 88, 32, 112, 111, 119, 101, 114, 32, 109, 117, 115, 116, 32,
      98, 101, 32, 98, 101, 116, 119, 101, 101, 110, 32, 53, 32, 97, 110,
      100, 32, 50, 51, 100, 66, 109>>

\* "Command format error: "
FORMAT_ERROR ==
    <<67, 111, 109, 109, 97, 110, 100, 32, 102, 111, 114, 109, 97, 116,
      32, 101, 114, 114, 111, 114, 58, 32>>

\* "LPM="
LPM_TAG ==
    <<76, 80, 77, 61>>

\* "Low power mode enabled"
LPM_ENABLED ==
    <<76, 111, 119, 32, 112, 111, 119, 101, 114, 32, 109, 111, 100, 101,
      32, 101, 110, 97, 98, 108, 101, 100>>

\* "Low power mode disabled"
LPM_DISABLED ==
    <<76, 111, 119, 32, 112, 111, 119, 101, 114, 32, 109, 111, 100, 101,
      32, 100, 105, 115, 97, 98, 108, 101, 100>>

\* "LPM value must be 0 or 1"
LPM_RANGE ==
    <<76, 80, 77, 32, 118, 97, 108, 117, 101, 32, 109, 117, 115, 116, 32,
      98, 101, 32, 48, 32, 111, 114, 32, 49>>

Rep(c, n) == [i \in 1..n |-> c]

Min(a, b) == IF a <= b THEN a ELSE b

\* Python slice s[a:b] with 0-based a, exclusive b, clipped to the string
Slice(s, a, b) == SubSeq(s, a + 1, Min(b, Len(s)))

StartsWith(s, p) == Len(s) >= Len(p) /\ SubSeq(s, 1, Len(p)) = p

RECURSIVE LStrip(_)
LStrip(s) == IF s # <<>> /\ Head(s) \in Whitespace THEN LStrip(Tail(s)) ELSE s

RECURSIVE RStrip(_)
RStrip(s) ==
    IF s # <<>> /\ s[Len(s)] \in Whitespace
    THEN RStrip(SubSeq(s, 1, Len(s) - 1)) ELSE s

\* str.strip() / bytes.strip()
Strip(s) == RStrip(LStrip(s))

(***************************************************************************)
(* manha.utils.calculate_checksum and Packet.                              *)
(***************************************************************************)
\* Loops over a byte string run left to right over data[lo..hi]; the range is
\* halved so that the evaluation does not nest once per byte.
RECURSIVE ChecksumRange(_, _, _)
ChecksumRange(data, lo, hi) ==
    IF lo > hi THEN 0
    ELSE IF lo = hi THEN data[lo] % 256
    ELSE LET mid == (lo + hi) \div 2
         IN (ChecksumRange(data, lo, mid) + ChecksumRange(data, mid + 1, hi)) % 256

\* the sum started from 1 instead of 0
calculate_checksum_m(data) == (ChecksumRange(data, 1, Len(data)) + 1) % 256

\* calculate_checksum(data): the sum of the bytes modulo 256
calculate_checksum(data) == ChecksumRange(data, 1, Len(data))

\* Packet(addr_to, addr_from, message): the checksum is computed
Packet(addr_to, addr_from, message) ==
    [none |-> FALSE, addr_to |-> addr_to, addr_from |-> addr_from,
     message |-> message, checksum |-> calculate_checksum(message)]

\* the None that Packet.decode returns
NoPacket ==
    [none |-> TRUE, addr_to |-> 0, addr_from |-> 0, message |-> <<>>,
     checksum |-> 0]

\* Packet.encode with the two address bytes in the order of the constructor
encode_m(packet) ==
    <<packet.addr_to, packet.addr_from, packet.checksum>> \o packet.message

\* Packet.encode
encode(packet) ==
    <<packet.addr_from, packet.addr_to, packet.checksum>> \o packet.message

\* Packet.decode returning None when the checksum byte does not match
decode_m(data) ==
    IF Len(data) < 3 \/ data[3] # calculate_checksum(SubSeq(data, 4, Len(data)))
    THEN NoPacket
    ELSE [none |-> FALSE, addr_to |-> data[2], addr_from |-> data[1],
          message |-> SubSeq(data, 4, Len(data)), checksum |-> data[3]]

\* Packet.decode: None below 3 bytes, the checksum byte is taken as received
decode(data) ==
    IF Len(data) < 3 THEN NoPacket
    ELSE [none |-> FALSE, addr_to |-> data[2], addr_from |-> data[1],
          message |-> SubSeq(data, 4, Len(data)), checksum |-> data[3]]

\* the comparison left out
is_valid_checksum_m(packet) == TRUE

\* Packet.is_valid_checksum
is_valid_checksum(packet) == packet.checksum = calculate_checksum(packet.message)

(***************************************************************************)
(* str(int) and int(str).                                                  *)
(***************************************************************************)
RECURSIVE IntToStr(_)
IntToStr(n) ==
    IF n < 10 THEN <<Ch.zero + n>>
    ELSE Append(IntToStr(n \div 10), Ch.zero + (n % 10))

RECURSIVE DigitsValue(_, _)
DigitsValue(s, acc) ==
    IF s = <<>> THEN acc
    ELSE DigitsValue(Tail(s), 10 * acc + (Head(s) - Ch.zero))

\* int(s) for a decimal literal; -1 stands for the ValueError otherwise
StrToInt(s) ==
    IF s # <<>> /\ \A i \in 1..Len(s) : s[i] \in Digits
    THEN DigitsValue(s, 0) ELSE -1

(***************************************************************************)
(* json.dumps of a string and of the multipart wrapper.                    *)
(***************************************************************************)
EscapeChar(c) ==
    IF c = Ch.quote THEN <<Ch.bslash, Ch.quote>>
    ELSE IF c = Ch.bslash THEN <<Ch.bslash, Ch.bslash>>
    ELSE IF c = Ch.lf THEN <<Ch.bslash, 110>>
    ELSE IF c = Ch.cr THEN <<Ch.bslash, 114>>
    ELSE IF c = Ch.tab THEN <<Ch.bslash, 116>>
    ELSE <<c>>

RECURSIVE EscapeRange(_, _, _)
EscapeRange(s, lo, hi) ==
    IF lo > hi THEN <<>>
    ELSE IF lo = hi THEN EscapeChar(s[lo])
    ELSE LET mid == (lo + hi) \div 2
         IN EscapeRange(s, lo, mid) \o EscapeRange(s, mid + 1, hi)

Escape(s) == EscapeRange(s, 1, Len(s))

\* json.dumps({'_part': p, '_total': t, 'data': d})
dumps_wrapper(part_num, total_parts, part_data) ==
    <<Ch.lbrace, Ch.quote>> \o KEY_PART \o <<Ch.quote, Ch.colon, Ch.space>>
      \o IntToStr(part_num)
      \o <<Ch.comma, Ch.space, Ch.quote>> \o KEY_TOTAL
      \o <<Ch.quote, Ch.colon, Ch.space>> \o IntToStr(total_parts)
      \o <<Ch.comma, Ch.space, Ch.quote>> \o KEY_DATA
      \o <<Ch.quote, Ch.colon, Ch.space, Ch.quote>> \o Escape(part_data)
      \o <<Ch.quote, Ch.rbrace>>

(***************************************************************************)
(* json.loads for the JSON the link carries: objects (nested), strings     *)
(* with escapes, non-negative integers, whitespace.  The result keeps the  *)
(* members of the top-level object.                                        *)
(***************************************************************************)
ParseInit ==
    [st |-> "val", depth |-> 0, key |-> <<>>, val |-> <<>>,
     top |-> "none", members |-> <<>>]

Bad(ps) == [ps EXCEPT !.st = "bad"]

\* a value has just ended at nesting depth ps.depth
CloseValue(ps, kind, v) ==
    [ps EXCEPT !.st = IF ps.depth = 0 THEN "end" ELSE "after",
               !.val = <<>>,
               !.top = IF ps.depth = 0 THEN kind ELSE @,
               !.members = IF ps.depth = 1
                           THEN Append(@, [key |-> ps.key, kind |-> kind, val |-> v])
                           ELSE @]

Unescape(c) ==
    IF c \in {Ch.quote, Ch.bslash, Ch.slash} THEN c
    ELSE IF c = 110 THEN Ch.lf
    ELSE IF c = 114 THEN Ch.cr
    ELSE IF c = 116 THEN Ch.tab
    ELSE IF c = 98 THEN 8
    ELSE IF c = 102 THEN 12
    ELSE -1

StepAfter(ps, c) ==
    IF c \in Whitespace THEN ps
    ELSE IF ps.st = "after" /\ c = Ch.comma THEN [ps EXCEPT !.st = "key"]
    ELSE IF ps.st = "after" /\ c = Ch.rbrace
         THEN CloseValue([ps EXCEPT !.depth = @ - 1], "obj", <<>>)
    ELSE Bad(ps)

ParseStep(ps, c) ==
    CASE ps.st = "val" ->
           IF c \in Whitespace THEN ps
           ELSE IF c = Ch.lbrace THEN [ps EXCEPT !.st = "key0", !.depth = @ + 1]
           ELSE IF c = Ch.quote THEN [ps EXCEPT !.st = "str", !.val = <<>>]
           ELSE IF c \in Digits THEN [ps EXCEPT !.st = "num", !.val = <<c>>]
           ELSE Bad(ps)
      [] ps.st \in {"key0", "key"} ->
           IF c \in Whitespace THEN ps
           ELSE IF c = Ch.quote THEN [ps EXCEPT !.st = "kstr", !.val = <<>>]
           ELSE IF ps.st = "key0" /\ c = Ch.rbrace
                THEN CloseValue([ps EXCEPT !.depth = @ - 1], "obj", <<>>)
           ELSE Bad(ps)
      [] ps.st = "kstr" ->
           IF c = Ch.quote
           THEN [ps EXCEPT !.st = "colon",
                           !.key = IF ps.depth = 1 THEN ps.val ELSE @,
                           !.val = <<>>]
           ELSE IF c = Ch.bslash THEN [ps EXCEPT !.st = "kesc"]
           ELSE IF c < 32 THEN Bad(ps)
           ELSE [ps EXCEPT !.val = Append(@, c)]
      [] ps.st \in {"kesc", "esc"} ->
           IF Unescape(c) < 0 THEN Bad(ps)
           ELSE [ps EXCEPT !.st = IF ps.st = "kesc" THEN "kstr" ELSE "str",
                           !.val = Append(@, Unescape(c))]
      [] ps.st = "colon" ->
           IF c \in Whitespace THEN ps
           ELSE IF c = Ch.colon THEN [ps EXCEPT !.st = "val"]
           ELSE Bad(ps)
      [] ps.st = "str" ->
           IF c = Ch.quote THEN CloseValue(ps, "str", ps.val)
           ELSE IF c = Ch.bslash THEN [ps EXCEPT !.st = "esc"]
           ELSE IF c < 32 THEN Bad(ps)
           ELSE [ps EXCEPT !.val = Append(@, c)]
      [] ps.st = "num" ->
           IF c \in Digits THEN [ps EXCEPT !.val = Append(@, c)]
           ELSE StepAfter(CloseValue(ps, "int", StrToInt(ps.val)), c)
      [] ps.st \in {"after", "end"} -> StepAfter(ps, c)
      [] OTHER -> ps

RECURSIVE ParseRange(_, _, _, _)
\* the parser run over s[lo..hi] from state ps
ParseRange(s, lo, hi, ps) ==
    IF lo > hi \/ ps.st = "bad" THEN ps
    ELSE IF lo = hi THEN ParseStep(ps, s[lo])
    ELSE LET mid == (lo + hi) \div 2
         IN ParseRange(s, mid + 1, hi, ParseRange(s, lo, mid, ps))

\* no value: None, or the ValueError json.loads raised
NoValue == [ok |-> FALSE, kind |-> "none", members |-> <<>>, text |-> <<>>]

\* json.loads(s): the parsed value, or NoValue for a ValueError.  A value is
\* represented by its kind, the members of a top-level object and the text
\* parsed.
loads(s) ==
    LET ps == ParseRange(s, 1, Len(s), ParseInit)
        fin == IF ps.st = "num" /\ ps.depth = 0
               THEN CloseValue(ps, "int", StrToInt(ps.val)) ELSE ps
    IN IF fin.st # "end" THEN NoValue
       ELSE [ok |-> TRUE, kind |-> fin.top, members |-> fin.members, text |-> s]

\* key in dict
HasKey(obj, k) == \E i \in 1..Len(obj.members) : obj.members[i].key = k

\* dict.get(k, default): the last member with that key
Get(obj, k, default) ==
    IF HasKey(obj, k)
    THEN LET i == CHOOSE j \in 1..Len(obj.members) :
                    /\ obj.members[j].key = k
                    /\ \A l \in (j + 1)..Len(obj.members) : obj.members[l].key # k
         IN obj.members[i].val
    ELSE default

\* truth value of a parsed JSON value: None, {}, "" and 0 are false
Truthy(v) ==
    /\ v.ok
    /\ v.kind = "obj" => v.members # <<>>
    /\ v.kind = "str" => Len(v.text) > 2
    /\ v.kind = "int" => StrToInt(Strip(v.text)) # 0

(***************************************************************************)
(* Telemetry texts: results of json.dumps(data) for the dictionaries the   *)
(* caller passes.  Each long text holds an escaped quote (\") that the     *)
(* first chunk boundary splits.                                            *)
(***************************************************************************)
\* {"a": 1}
JsonS == <<123, 34, 97, 34, 58, 32, 49, 125>>

\* {"a": "zzz...z\"zzz...z"}, 115 characters
JsonA ==
    <<123, 34, 97, 34, 58, 32, 34>> \o Rep(Ch.z, 52) \o <<Ch.bslash, Ch.quote>>
      \o Rep(Ch.z, 52) \o <<Ch.quote, Ch.rbrace>>

\* {"a": "www...w\"www...w"}, 115 characters
JsonB ==
    <<123, 34, 97, 34, 58, 32, 34>> \o Rep(Ch.w, 52) \o <<Ch.bslash, Ch.quote>>
      \o Rep(Ch.w, 52) \o <<Ch.quote, Ch.rbrace>>

\* {"g": {"a": "xxx...x\"xxx...x"}, "h": "yyy...y"}, 85 characters
JsonC ==
    <<123, 34, 103, 34, 58, 32, 123, 34, 97, 34, 58, 32, 34>> \o Rep(Ch.x, 16)
      \o <<Ch.bslash, Ch.quote>> \o Rep(Ch.x, 27)
      \o <<34, 125, 44, 32, 34, 104, 34, 58, 32, 34>> \o Rep(Ch.y, 15)
      \o <<Ch.quote, Ch.rbrace>>

(***************************************************************************)
(* Fragmentation in LoRa._send_multipart_json (satkit).                    *)
(***************************************************************************)
available_size(max_size) == max_size - RESERVED

\* one part more than the floor of the quotient
total_parts_of_m(json_str, max_size) ==
    Len(json_str) \div available_size(max_size) + 1

total_parts_of(json_str, max_size) ==
    (Len(json_str) + available_size(max_size) - 1) \div available_size(max_size)

part_data_of(json_str, max_size, part_num) ==
    LET start_idx == (part_num - 1) * available_size(max_size)
        end_idx == Min(start_idx + available_size(max_size), Len(json_str))
    IN Slice(json_str, start_idx, end_idx)

\* the payload of part part_num
multipart_payload(json_str, max_size, part_num) ==
    dumps_wrapper(part_num, total_parts_of(json_str, max_size),
                  part_data_of(json_str, max_size, part_num))

(***************************************************************************)
(* State.                                                                  *)
(***************************************************************************)
VARIABLES
    \* ---- satellite ----
    sat_mode,                 \* "link": LoRa.send_telemetry drives the radio;
                              \* "manha": MANHA.lora_tlm_task does
    sat_id,                   \* LoRa.device_id / MANHA.lora_address_self
    ground_station_address,   \* -1 is None
    reset_occurred,           \* LoRa._reset_occurred
    sat_pc,                   \* where the sending task stands
    cur,                      \* the send in progress
    calls,                    \* telemetry sends started so far
    tx_timeouts,              \* sends that timed out waiting for TX_DONE
    sat_results,              \* what each finished send returned
    sat_tx,                   \* frames handed to the satellite modem's send
    sat_log,                  \* inbound frames the satellite read, with effects
    command_flag,             \* MANHA.command_flag
    command_response,         \* MANHA.command_response (<<>> is None)
    \* ---- the air ----
    to_gs,                    \* frames on their way to the ground station
    to_sat,                   \* frames on their way to the satellite
    damaged,                  \* frames lost or corrupted so far
    \* ---- ground station ----
    gs_id,                    \* LoRa.device_id
    satellite_address,        \* LoRa.satellite_address
    multipart_buffer,         \* LoRa._multipart_buffer: sender -> part -> data
    buffer_src,               \* history: the send each buffered part came from
    last_telemetry,           \* LoRa._last_telemetry
    gs_tx,                    \* frames handed to the ground-station modem's send
    gs_log,                   \* inbound frames the ground station read, with effects
    cmds,                     \* commands issued so far
    \* ---- the two modems and the tasks that drive them ----
    modem,                    \* per side: the chip's mode, RFM9x._mode, the IRQ
                              \* flags, the frame in the FIFO, the frame received
    lock,                     \* per side: the task inside `async with self._lock`
    task,                     \* per task: where it stands
    last_load,                \* the latest FIFO load of RFM9x.send
    last_cmd,                 \* the latest send_command call of the ground station
    \* ---- reset marker, hardware reset, transmit power ----
    marker,                   \* the file /RMT_RESET exists
    marker_at,                \* Len(sat_tx) when the marker was last written
    reset_due,                \* a hardware reset is scheduled (1000 ms sleep)
    boots,                    \* the hardware resets of the satellite so far
    pa,                       \* per side: PA_DAC enabled, the value or'ed
                              \* into PA_CONFIG, RFM9x._tx_power
    pow_call,                 \* the latest set_tx_power call and its outcome
    \* ---- the MANHA host ----
    low_power_mode,           \* MANHA.low_power_mode
    lpm_call,                 \* the latest LPM= command handled and its outcome
    activity,                 \* the latest LED fill or non-essential sensor read
    \* ---- the packet codec applied to raw bytes ----
    codec,                    \* the bytes, Packet.decode of them, encode() of that
    \* ---- the ground station's console and heartbeat task ----
    heartbeat_enabled,        \* ManhaGS.heartbeat_enabled
    hb_pc,                    \* send_heartbeat: asleep, or waiting for the lock
    \* ---- the satellite's command registries ----
    commands,                 \* MANHA.commands: the names registered
    command_handlers,         \* LoRa._command_handlers: the names registered
    invoked,                  \* the registered handlers called so far, by name
    \* ---- a Link's receiver, started and stopped by the application ----
    receiver_running,         \* LoRa._receiver_running
    stop_flag,                \* LoRa._stop_receiver
    loops,                    \* the _receiver_loop tasks created, each "created",
                              \* "running" or "done"
    caller,                   \* the application: "idle", or inside stop_receiver
    stopped                   \* stop_receiver has returned and start_receiver
                              \* has not been called since

sat_vars == <<sat_mode, sat_id, ground_station_address, reset_occurred, sat_pc,
              cur, calls, tx_timeouts, sat_results, sat_tx, sat_log, command_flag,
              command_response>>
air_vars == <<to_gs, to_sat, damaged>>
gs_vars == <<gs_id, satellite_address, multipart_buffer, buffer_src,
             last_telemetry, gs_tx, gs_log, cmds>>
radio_vars == <<modem, lock, task, last_load, last_cmd>>
sys_vars == <<marker, marker_at, reset_due, boots, pa, pow_call>>
host_vars == <<low_power_mode, lpm_call, activity>>
reg_vars == <<commands, command_handlers, invoked>>
rx_vars == <<receiver_running, stop_flag, loops, caller, stopped>>
ext_vars == <<codec, heartbeat_enabled, hb_pc, reg_vars, rx_vars>>
vars == <<sat_vars, air_vars, gs_vars, radio_vars, sys_vars, host_vars, ext_vars>>

NoCur ==
    [call |-> 0, json_str |-> <<>>, target_addr |-> 0, max_size |-> 0,
     part_num |-> 0, total_parts |-> 0]

\* a frame on the air; call, part and total say which telemetry send it
\* belongs to (call 0: not telemetry; total 0: a single frame)
OnAir(frame, call, part, total) ==
    [frame |-> frame, call |-> call, part |-> part, total |-> total]

\* frames that belong to no telemetry send, on the air and in the send log
AirSeq(frames) == [i \in 1..Len(frames) |-> OnAir(frames[i], 0, -1, 0)]
TxSeq(frames) == [i \in 1..Len(frames) |-> [frame |-> frames[i], call |-> 0, part |-> -1]]

\* the ground station's device_id; the satellite keeps LORA_ADDR
GS_ADDR == LORA_ADDR + 1

\* (json.dumps(data), max_size) of the send_telemetry calls exercised:
\* one part, three parts, two parts
Sends == {<<JsonS, MaxSizeSmall>>, <<JsonC, MaxSizeSmall>>, <<JsonB, MaxSizeLarge>>}

\* target_addr argument of send_telemetry; -1 is None
Targets == {-1, GS_ADDR}

Commands == {PING}

(***************************************************************************)
(* RFM9x.set_tx_power and the Links' set_tx_power.  A modem's power        *)
(* amplifier state is [dac, out, tx_power]: PA_DAC enabled, the value      *)
(* or'ed with PA_SELECT into PA_CONFIG, and RFM9x._tx_power.               *)
(***************************************************************************)
\* 5 <= tx_power <= 23
in_range(n) == POWER_MIN <= n /\ n <= POWER_MAX

\* if tx_power < 5: tx_power = 5; if tx_power > 23: tx_power = 23
clamp(n) == IF n < POWER_MIN THEN POWER_MIN ELSE IF n > POWER_MAX THEN POWER_MAX ELSE n

\* RFM9x.set_tx_power(n) on amplifier state p: the outcomes.  tx_power - 5
\* is negative for n < 8; the bytearray of the SPI write then raises
\* ValueError after PA_DAC was written, or keeps the low byte of the value
modem_set_tx_power(p, n) ==
    LET dac == clamp(n) < POWER_DAC_OFF
        tx_power == IF dac THEN clamp(n) - DAC_GAIN ELSE clamp(n)
        out == tx_power - PA_OFFSET
    IN IF out >= 0
       THEN {[error |-> FALSE,
              pa |-> [dac |-> dac, out |-> out, tx_power |-> tx_power]]}
       ELSE {[error |-> TRUE, pa |-> [p EXCEPT !.dac = dac]],
             [error |-> FALSE,
              pa |-> [dac |-> dac, out |-> out % BYTE, tx_power |-> tx_power]]}

\* LoRa.set_tx_power(n) of either Link: ValueError outside 5..23
link_set_tx_power(p, n) ==
    IF in_range(n) THEN modem_set_tx_power(p, n)
    ELSE {[error |-> TRUE, pa |-> p]}

\* the amplifier state RFM9x.__init__ leaves: set_tx_power(14)
DefaultPa ==
    (CHOOSE o \in modem_set_tx_power([dac |-> FALSE, out |-> 0, tx_power |-> 0],
                                     DEFAULT_TX_POWER) : ~o.error).pa

\* no set_tx_power call yet
NoCall ==
    [on |-> "none", n |-> 0, error |-> FALSE, before |-> DefaultPa,
     after |-> DefaultPa, response |-> <<>>]

\* after construction: _check_reset_file has removed the marker if there was one
SysInit ==
    /\ marker = FALSE
    /\ marker_at = -1
    /\ reset_due = FALSE
    /\ boots = <<>>
    /\ pa = [s \in {"gs", "sat"} |-> DefaultPa]
    /\ pow_call = NoCall

(***************************************************************************)
(* The MANHA host (src/manha/satkit/manha.py): low-power mode, the LED     *)
(* matrix and the non-essential sensors.  An activity is [kind, by, lpm]:  *)
(* an LED fill or a non-essential sensor read, the place in the code that  *)
(* did it, and low_power_mode at that moment.                              *)
(***************************************************************************)
Led(by, lp) == [kind |-> "led", by |-> by, lpm |-> lp]

SensorRead(lp) == [kind |-> "sensor", by |-> "read_sensors_task", lpm |-> lp]

\* blink_led_matrix: fills only if not in low-power mode
blink_led_matrix(by, lp) == IF lp THEN <<>> ELSE <<Led(by, lp)>>

\* no LPM= command handled yet
NoLpmCall ==
    [on |-> FALSE, n |-> -1, before |-> FALSE, after |-> FALSE, response |-> <<>>]

\* MANHA.__init__: low_power_mode = False, led_matrix.fill(WHITE)
HostInit ==
    /\ low_power_mode = FALSE
    /\ lpm_call = NoLpmCall
    /\ activity = <<Led("init", FALSE)>>

(***************************************************************************)
(* The modems and the tasks of the two Links, as constructed.              *)
(***************************************************************************)
Sides == {"gs", "sat"}

Other(s) == IF s = "gs" THEN "sat" ELSE "gs"

\* GroundStation.send_heartbeat, GroundStation.send_command and the
\* ground station Link's _receiver_loop
GsTasks == {"gs_hb", "gs_cmd", "gs_rx"}

\* the telemetry task (LoRa.send_telemetry or MANHA.lora_tlm_task) and the
\* satellite Link's _receiver_loop
SatTasks == {"sat_tlm", "sat_rx"}

Tasks == GsTasks \cup SatTasks

SideOf(t) == IF t \in GsTasks THEN "gs" ELSE "sat"

\* a task at pc, with the kind of frame it is sending and where it goes on
\* afterwards
At(pc, kind, next) == [pc |-> pc, kind |-> kind, next |-> next]

\* no FIFO load yet
NoLoad ==
    [side |-> "none", task |-> "none", before |-> "none", chip |-> "none",
     in_flight |-> {}]

\* no send_command call yet.  A call is [task, loads, tx_done, ret]: the
\* calling task, the frames it loaded, whether the chip finished sending
\* its frame, and what it returned ("pending" until it returns)
NoCmd == [task |-> "none", loads |-> 0, tx_done |-> FALSE, ret |-> "none"]

\* RFM9x.__init__ ends with set_mode_idle(); the receiver tasks are created
\* and have not run yet
RadioInit ==
    /\ modem = [s \in Sides |->
                 [chip |-> "STDBY", mode |-> "STDBY", irq |-> {},
                  fifo |-> "none", rx |-> "none"]]
    /\ lock = [s \in Sides |-> "free"]
    /\ task = [t \in Tasks |->
                 IF t \in {"gs_rx", "sat_rx"} THEN At("rx_top", "none", "rx_top")
                 ELSE At("idle", "none", "idle")]
    /\ last_load = NoLoad
    /\ last_cmd = NoCmd

InitBase ==
    /\ RadioInit
    /\ SysInit
    /\ HostInit
    /\ sat_mode \in {"link", "manha"}
    /\ sat_id = LORA_ADDR
    /\ ground_station_address = -1
    /\ reset_occurred \in (IF sat_mode = "link" THEN BOOLEAN ELSE {FALSE})
    /\ sat_pc = "idle"
    /\ cur = NoCur
    /\ calls = 0
    /\ tx_timeouts = 0
    /\ sat_results = <<>>
    /\ sat_tx = <<>>
    /\ sat_log = <<>>
    /\ command_flag = FALSE
    /\ command_response = <<>>
    /\ to_gs = <<>>
    /\ to_sat = <<>>
    /\ damaged = 0
    /\ gs_id = GS_ADDR
    /\ satellite_address = gs_id
    /\ multipart_buffer = <<>>
    /\ buffer_src = <<>>
    /\ last_telemetry = NoValue
    /\ gs_tx = <<>>
    /\ gs_log = <<>>
    /\ cmds = 0

\* no bytes handed to the codec
NoCodec == [pc |-> "off", data |-> <<>>, packet |-> NoPacket, encoded |-> <<>>]

\* ManhaGS.__init__: heartbeat_enabled = False; MANHA.__init__ and
\* LoRa.__init__: the registries and the receiver's flags
AppInit ==
    /\ heartbeat_enabled = FALSE
    /\ hb_pc = "sleep"
    /\ commands = {}
    /\ command_handlers = {PING, RESET}
    /\ invoked = <<>>
    /\ receiver_running = FALSE
    /\ stop_flag = FALSE
    /\ loops = <<>>
    /\ caller = "idle"
    /\ stopped = FALSE

ExtInit == codec = NoCodec /\ AppInit

Init == InitBase /\ ExtInit

(***************************************************************************)
(* RFM9x.send (src/manha/internals/drivers/rfm9x.py): the frame is written *)
(* to the 256-byte FIFO from address 0 and its length to the one-byte      *)
(* payload length register.                                                *)
(***************************************************************************)
\* what ends up being transmitted when the length byte is stored truncated:
\* the FIFO address wraps, so the bytes after the first 256 overwrite the
\* start of the FIFO and len % 256 bytes are sent from address 0
fifo_image(frame) ==
    IF Len(frame) < BYTE THEN frame
    ELSE SubSeq(frame, Len(frame) - (Len(frame) % BYTE) + 1, Len(frame))

\* the frames RFM9x.send(frame) may put on the air; <<>> stands for the
\* ValueError of bytearray() on a length above 255, which a build that
\* checks the range raises and the Links catch
modem_send(frame) ==
    IF Len(frame) < BYTE THEN {frame} ELSE {<<>>, fifo_image(frame)}

(***************************************************************************)
(* Ground station: LoRa.send_ack, send_command, _process_received_data,    *)
(* _handle_telemetry, _handle_multipart (src/manha/gs/lora.py).            *)
(***************************************************************************)
\* the frame send_ack hands to the modem
ack_frame(part, target_addr, device_id) ==
    encode(Packet(target_addr, device_id, ACK_TAG \o IntToStr(part) \o CRLF))

\* the frame send_command / _send_command_response hands to the modem
cmd_frame(text, target_addr, device_id) ==
    encode(Packet(target_addr, device_id, CMD_TAG \o text \o CRLF))

\* dict with key k set to v
Put(f, k, v) == [x \in DOMAIN f \cup {k} |-> IF x = k THEN v ELSE f[x]]

\* dict with key k deleted
Del(f, k) == [x \in DOMAIN f \ {k} |-> f[x]]

RECURSIVE ConcatParts(_, _, _)
\* the loop over range(i, total_parts + 1), skipping the parts that are absent
ConcatParts(parts, i, total_parts) ==
    IF i > total_parts THEN <<>>
    ELSE (IF i \in DOMAIN parts THEN parts[i] ELSE <<>>)
           \o ConcatParts(parts, i + 1, total_parts)

RECURSIVE ConcatPartsDown(_, _)
ConcatPartsDown(parts, i) ==
    IF i < 1 THEN <<>>
    ELSE (IF i \in DOMAIN parts THEN parts[i] ELSE <<>>)
           \o ConcatPartsDown(parts, i - 1)

\* the parts joined from the last to the first
reconstruct_m(parts, total_parts) == ConcatPartsDown(parts, total_parts)

\* complete_data of _handle_multipart
reconstruct(parts, total_parts) == ConcatParts(parts, 1, total_parts)

\* _handle_multipart clearing the whole buffer when a message completes
handle_multipart_m(data, sender_id, device_id, buf) ==
    LET part_num == Get(data, KEY_PART, 1)
        total_parts == Get(data, KEY_TOTAL, 1)
        part_data == Get(data, KEY_DATA, <<>>)
        entry == IF sender_id \in DOMAIN buf THEN buf[sender_id] ELSE <<>>
        stored == Put(entry, part_num, part_data)
        full == Cardinality(DOMAIN stored) = total_parts
    IN [sent |-> <<ack_frame(part_num, sender_id, device_id)>>,
        buffer |-> IF full THEN <<>> ELSE Put(buf, sender_id, stored),
        full |-> full,
        part |-> part_num,
        result |-> IF full THEN loads(reconstruct(stored, total_parts))
                   ELSE NoValue]

\* _handle_multipart(data, sender_id) on buffer buf: the ACK it sends, the
\* buffer it leaves and what it returns
handle_multipart(data, sender_id, device_id, buf) ==
    LET part_num == Get(data, KEY_PART, 1)
        total_parts == Get(data, KEY_TOTAL, 1)
        part_data == Get(data, KEY_DATA, <<>>)
        entry == IF sender_id \in DOMAIN buf THEN buf[sender_id] ELSE <<>>
        stored == Put(entry, part_num, part_data)
        full == Cardinality(DOMAIN stored) = total_parts
    IN [sent |-> <<ack_frame(part_num, sender_id, device_id)>>,
        buffer |-> IF full THEN Del(buf, sender_id)
                   ELSE Put(buf, sender_id, stored),
        full |-> full,
        part |-> part_num,
        result |-> IF full THEN loads(reconstruct(stored, total_parts))
                   ELSE NoValue]

NoEffect(buf) ==
    [sent |-> <<>>, tlm |-> <<>>, rsp |-> <<>>, buffer |-> buf, full |-> FALSE,
     multipart |-> FALSE, part |-> 0]

\* _handle_telemetry(message, packet)
handle_telemetry(message, packet, device_id, sat_addr, buf) ==
    IF packet.addr_to # sat_addr THEN NoEffect(buf)
    ELSE IF ~StartsWith(message, <<Ch.lbrace>>)
    THEN [NoEffect(buf) EXCEPT !.rsp = <<message>>]
    ELSE LET data == loads(message) IN
         IF ~data.ok THEN NoEffect(buf)
         ELSE IF HasKey(data, KEY_PART)
         THEN LET m == handle_multipart(data, packet.addr_from, device_id, buf)
              IN [sent |-> m.sent,
                  tlm |-> IF Truthy(m.result) THEN <<m.result>> ELSE <<>>,
                  rsp |-> <<>>, buffer |-> m.buffer, full |-> m.full,
                  multipart |-> TRUE, part |-> m.part]
         ELSE [NoEffect(buf) EXCEPT
                  !.sent = <<ack_frame(0, packet.addr_from, device_id)>>,
                  !.tlm = <<data>>]

\* _process_received_data(raw_data) without the CMD: branch
gs_process_received_data_m(raw_data, device_id, sat_addr, buf) ==
    LET packet == decode(raw_data) IN
    IF packet.none \/ ~is_valid_checksum(packet) THEN NoEffect(buf)
    ELSE handle_telemetry(Strip(packet.message), packet, device_id, sat_addr, buf)

\* _process_received_data(raw_data)
gs_process_received_data(raw_data, device_id, sat_addr, buf) ==
    LET packet == decode(raw_data) IN
    IF packet.none \/ ~is_valid_checksum(packet) THEN NoEffect(buf)
    ELSE LET message == Strip(packet.message) IN
         IF StartsWith(message, CMD_TAG)
         THEN [NoEffect(buf) EXCEPT !.rsp = <<Slice(message, 4, Len(message))>>]
         ELSE handle_telemetry(message, packet, device_id, sat_addr, buf)

\* the sends whose parts lie in the entry of sender s (history)
SrcAfter(src, s, part, call) ==
    Put(src, s, Put(IF s \in DOMAIN src THEN src[s] ELSE <<>>, part, call))

\* the sends whose parts are in the buffer entry of `sender` once effect eff
\* of a frame of send `call` is applied (history)
SrcOf(eff, sender, call) ==
    IF eff.multipart THEN SrcAfter(buffer_src, sender, eff.part, call)
    ELSE buffer_src

\* effect eff of handling inbound record r, applied to the state
GsApply(r, eff, src1) ==
    /\ multipart_buffer' = eff.buffer
    /\ buffer_src' = IF eff.full THEN Del(src1, r.frame[1]) ELSE src1
    /\ last_telemetry' = IF eff.tlm # <<>> THEN eff.tlm[1] ELSE last_telemetry
    /\ gs_tx' = gs_tx \o eff.sent
    /\ gs_log' = Append(gs_log,
                   [frame |-> r.frame, call |-> r.call, part |-> r.part, total |-> r.total,
                    sent |-> eff.sent, tlm |-> eff.tlm, rsp |-> eff.rsp,
                    used |-> IF eff.multipart
                             THEN {src1[r.frame[1]][i] : i \in DOMAIN src1[r.frame[1]]}
                             ELSE {r.call}])
    /\ to_sat' = to_sat \o AirSeq(eff.sent)

GsEffect(r) ==
    gs_process_received_data(r.frame, gs_id, satellite_address, multipart_buffer)

\* the ground station reads inbound record r and handles it
GsHandle(r) == GsApply(r, GsEffect(r), SrcOf(GsEffect(r), r.frame[1], r.call))

\* the receiver loop reads the next frame
GsReceive ==
    /\ to_gs # <<>>
    /\ GsHandle(Head(to_gs))
    /\ to_gs' = Tail(to_gs)
    /\ UNCHANGED <<sat_vars, damaged, gs_id, satellite_address, cmds>>

\* send_command(command) with no target given
GsSendCommand(command) ==
    /\ cmds < MaxCmds
    /\ cmds' = cmds + 1
    /\ LET f == cmd_frame(command, satellite_address, gs_id) IN
         /\ gs_tx' = Append(gs_tx, f)
         /\ \E air \in modem_send(f) :
               to_sat' = IF air = <<>> THEN to_sat
                         ELSE Append(to_sat, OnAir(air, 0, -1, 0))
    /\ UNCHANGED <<sat_vars, to_gs, damaged, gs_id, satellite_address,
                   multipart_buffer, buffer_src, last_telemetry, gs_log>>

(***************************************************************************)
(* Satellite Link: send_telemetry, _send_multipart_json,                   *)
(* _send_packet_with_ack, _listen_for_packet, _wait_for_ack,               *)
(* _process_received_data, _handle_command (src/manha/satkit/lora.py).     *)
(***************************************************************************)
\* outcomes of _wait_for_tx_complete: TX_DONE seen, or the deadline passed
TxOutcomes == IF damaged + tx_timeouts < MaxFaults THEN BOOLEAN ELSE {TRUE}

\* target_addr of send_telemetry: ground_station_address or 255
default_target(gsa) == IF gsa = -1 \/ gsa = 0 THEN BROADCAST ELSE gsa

\* the payload of the frame for part c.part_num of send c
part_payload(c) ==
    IF c.total_parts = 0 THEN c.json_str
    ELSE multipart_payload(c.json_str, c.max_size, c.part_num)

\* the loop goes on to the next part whatever the ACK wait returned
next_part_wanted_m(success, part_num, total_parts) == part_num < total_parts

\* _send_multipart_json: after the wait for part part_num, is another part sent?
next_part_wanted(success, part_num, total_parts) ==
    success /\ part_num < total_parts

\* _process_received_data taking the address of every valid frame
sat_process_received_data_m(raw_data, gsa, device_id) ==
    LET packet == decode(raw_data) IN
    IF packet.none \/ ~is_valid_checksum(packet)
    THEN [gsa |-> gsa, sent |-> <<>>, handled |-> <<>>, reset |-> FALSE]
    ELSE LET gsa1 == packet.addr_from
             message == Strip(packet.message)
             command == Strip(Slice(message, 4, Len(message)))
         IN IF ~StartsWith(message, CMD_TAG)
            THEN [gsa |-> gsa1, sent |-> <<>>, handled |-> <<>>, reset |-> FALSE]
            ELSE IF command = PING
            THEN [gsa |-> gsa1,
                  sent |-> <<cmd_frame(PING_OK, packet.addr_from, device_id)>>,
                  handled |-> <<command>>, reset |-> FALSE]
            ELSE IF command = RESET
            THEN [gsa |-> gsa1,
                  sent |-> <<cmd_frame(RESET_ACK, packet.addr_from, device_id)>>,
                  handled |-> <<command>>, reset |-> TRUE]
            ELSE [gsa |-> gsa1, sent |-> <<>>, handled |-> <<command>>,
                  reset |-> FALSE]

\* _process_received_data(raw_data): the address learnt, the responses sent,
\* the commands handled (_handle_ping, _handle_reset, or the CALLBACK_COMMAND
\* callback) and whether _handle_reset wrote the marker and scheduled reset()
sat_process_received_data(raw_data, gsa, device_id) ==
    LET packet == decode(raw_data) IN
    IF packet.none \/ ~is_valid_checksum(packet)
    THEN [gsa |-> gsa, sent |-> <<>>, handled |-> <<>>, reset |-> FALSE]
    ELSE LET gsa1 == IF gsa = -1 THEN packet.addr_from ELSE gsa
             message == Strip(packet.message)
             command == Strip(Slice(message, 4, Len(message)))
         IN IF ~StartsWith(message, CMD_TAG)
            THEN [gsa |-> gsa1, sent |-> <<>>, handled |-> <<>>, reset |-> FALSE]
            ELSE IF command = PING
            THEN [gsa |-> gsa1,
                  sent |-> <<cmd_frame(PING_OK, packet.addr_from, device_id)>>,
                  handled |-> <<command>>, reset |-> FALSE]
            ELSE IF command = RESET
            THEN [gsa |-> gsa1,
                  sent |-> <<cmd_frame(RESET_ACK, packet.addr_from, device_id)>>,
                  handled |-> <<command>>, reset |-> TRUE]
            ELSE [gsa |-> gsa1, sent |-> <<>>, handled |-> <<command>>,
                  reset |-> FALSE]

\* _wait_for_ack(expected_part) on the packet _listen_for_packet returned
ack_matches(packet, expected_part) ==
    LET message == Strip(packet.message) IN
    /\ StartsWith(message, ACK_TAG)
    /\ StrToInt(Slice(message, 4, Len(message))) = expected_part

\* _handle_reset, when the command was RESET: /RMT_RESET is written before
\* the RESET_ACK goes out, reset() follows after 1000 ms
HandleReset(eff) ==
    /\ marker' = (marker \/ eff.reset)
    /\ marker_at' = IF eff.reset THEN Len(sat_tx) ELSE marker_at
    /\ reset_due' = (reset_due \/ eff.reset)
    /\ UNCHANGED <<boots, pa, pow_call>>

\* _send_packet_with_ack for the current part of send c, after the frames
\* `before` (command responses) went out: the frame is handed to the modem;
\* the task then waits for the ACK, or gives up when TX_DONE was not seen
\* or modem.send raised
SatSendPart(c, before, txd) ==
    LET frame == encode(Packet(c.target_addr, sat_id, part_payload(c))) IN
    /\ sat_tx' = sat_tx \o TxSeq(before)
                   \o <<[frame |-> frame, call |-> c.call, part |-> c.part_num]>>
    /\ to_gs' = to_gs \o AirSeq(before)
                  \o (IF txd
                      THEN <<OnAir(fifo_image(frame), c.call, c.part_num, c.total_parts)>>
                      ELSE <<>>)
    /\ tx_timeouts' = IF txd THEN tx_timeouts ELSE tx_timeouts + 1
    /\ IF txd
       THEN /\ sat_pc' = "wait_ack"
            /\ cur' = c
            /\ sat_results' = sat_results
       ELSE /\ sat_pc' = "idle"
            /\ cur' = NoCur
            /\ sat_results' = Append(sat_results,
                                [call |-> c.call, ok |-> FALSE, at |-> c.part_num,
                                 json_str |-> c.json_str, total |-> c.total_parts])

\* send_telemetry returns
SatFinish(ok, before) ==
    /\ sat_pc' = "idle"
    /\ cur' = NoCur
    /\ sat_results' = Append(sat_results,
                         [call |-> cur.call, ok |-> ok, at |-> cur.part_num,
                          json_str |-> cur.json_str, total |-> cur.total_parts])
    /\ sat_tx' = sat_tx \o TxSeq(before)
    /\ to_gs' = to_gs \o AirSeq(before)
    /\ tx_timeouts' = tx_timeouts

\* send_telemetry(data, target_addr, max_size), up to the first ACK wait
SendTelemetry(json_str, target_arg, max_size, txd) ==
    /\ sat_mode = "link"
    /\ sat_pc = "idle"
    /\ calls < MaxCalls
    /\ calls' = calls + 1
    /\ reset_occurred' = FALSE
    /\ LET target_addr == IF target_arg = -1
                          THEN default_target(ground_station_address)
                          ELSE target_arg
           multipart == Len(json_str) > max_size
           c == [call |-> calls + 1, json_str |-> json_str,
                 target_addr |-> target_addr, max_size |-> max_size,
                 part_num |-> IF multipart THEN 1 ELSE 0,
                 total_parts |-> IF multipart
                                 THEN total_parts_of(json_str, max_size) ELSE 0]
           before == IF reset_occurred
                     THEN <<cmd_frame(RESET_OK, target_addr, sat_id)>> ELSE <<>>
       IN SatSendPart(c, before, txd)
    /\ UNCHANGED <<sat_mode, sat_id, ground_station_address, sat_log,
                   command_flag, command_response, to_sat, damaged, gs_vars>>

\* what follows once _send_packet_with_ack returned `success` for the
\* current part: the next part, or the return of send_telemetry
SatAfterAck(success, before, txd) ==
    IF next_part_wanted(success, cur.part_num, cur.total_parts)
    THEN SatSendPart([cur EXCEPT !.part_num = @ + 1], before, txd)
    ELSE SatFinish(success, before)

\* the entry of sat_log for a wait that ended at its deadline (no frame read)
Deadline(c) ==
    [frame |-> <<>>, where |-> "deadline", sent |-> <<>>, handled |-> <<>>,
     expected |-> c.part_num, call |-> c.call, outcome |-> "failed"]

\* _listen_for_packet reads a frame during the ACK wait
SatListenRecv(txd) ==
    /\ sat_pc = "wait_ack"
    /\ to_sat # <<>>
    /\ LET r == Head(to_sat)
           packet == decode(r.frame)
           valid == ~packet.none /\ is_valid_checksum(packet)
           eff == sat_process_received_data(r.frame, ground_station_address, sat_id)
       IN /\ to_sat' = Tail(to_sat)
          /\ ground_station_address' = eff.gsa
          /\ sat_log' = Append(sat_log,
                          [frame |-> r.frame, where |-> "wait_ack",
                           sent |-> eff.sent, handled |-> eff.handled,
                           expected |-> cur.part_num, call |-> cur.call,
                           outcome |-> IF ~valid THEN "waiting"
                                       ELSE IF ack_matches(packet, cur.part_num)
                                       THEN "acked" ELSE "failed"])
          /\ IF valid
             THEN SatAfterAck(ack_matches(packet, cur.part_num), eff.sent, txd)
             ELSE UNCHANGED <<sat_pc, cur, sat_results, sat_tx, to_gs, tx_timeouts>>
          /\ HandleReset(eff)
    /\ UNCHANGED <<sat_mode, sat_id, reset_occurred, calls, command_flag,
                   command_response, damaged, gs_vars>>

\* the deadline of _listen_for_packet passes: nothing is on its way any more
SatAckTimeout(txd) ==
    /\ sat_pc = "wait_ack"
    /\ to_sat = <<>>
    /\ to_gs = <<>>
    /\ SatAfterAck(FALSE, <<>>, txd)
    /\ sat_log' = Append(sat_log, Deadline(cur))
    /\ UNCHANGED <<sat_mode, sat_id, ground_station_address, reset_occurred,
                   calls, command_flag, command_response, to_sat,
                   damaged, gs_vars>>

\* _receiver_loop reads a frame while no send is in progress
SatReceiverRecv ==
    /\ sat_mode = "link"
    /\ sat_pc = "idle"
    /\ to_sat # <<>>
    /\ LET r == Head(to_sat)
           eff == sat_process_received_data(r.frame, ground_station_address, sat_id)
       IN /\ to_sat' = Tail(to_sat)
          /\ ground_station_address' = eff.gsa
          /\ sat_log' = Append(sat_log,
                          [frame |-> r.frame, where |-> "receiver",
                           sent |-> eff.sent, handled |-> eff.handled,
                           expected |-> -1, call |-> 0, outcome |-> "none"])
          /\ sat_tx' = sat_tx \o TxSeq(eff.sent)
          /\ to_gs' = to_gs \o AirSeq(eff.sent)
          /\ HandleReset(eff)
    /\ UNCHANGED <<sat_mode, sat_id, reset_occurred, sat_pc, cur, calls,
                   tx_timeouts, sat_results, command_flag, command_response,
                   damaged, gs_vars>>

(***************************************************************************)
(* MANHA: lora_tlm_task, _prepare_telemetry_async, _wait_for_simple_ack,   *)
(* _listen_for_commands, _process_command_bytes                            *)
(* (src/manha/satkit/manha.py).                                            *)
(***************************************************************************)
\* MANHA.lora_address_to, configured to the ground station's address
lora_address_to == GS_ADDR

\* _prepare_telemetry_async: the pending command response, else the next
\* chunk of the telemetry generator
prepare_telemetry(flag, response) ==
    IF flag /\ response # <<>> THEN response ELSE JsonS

\* the test _wait_for_simple_ack applies to the raw bytes
simple_ack(raw_data) ==
    Len(raw_data) >= 6 /\ Slice(raw_data, 3, 6) \in {ACK3, CMD3}

\* _process_command_bytes: the response it leaves for the telemetry task
command_reply(command) ==
    IF command = PING THEN PONG
    ELSE <<85, 110, 107, 110, 111, 119, 110, 32, 99, 111, 109, 109, 97, 110,
           100, 58, 32>> \o command

\* the LPM=<n> branch of _handle_custom_command_with_response with the
\* mode never switched off
lpm_command_m(n, lp) ==
    IF n = 1 THEN [lpm |-> TRUE, response |-> LPM_ENABLED, blink |-> <<>>]
    ELSE IF n = 0 THEN [lpm |-> lp, response |-> LPM_DISABLED, blink |-> <<>>]
    ELSE IF n = -1 THEN [lpm |-> lp, response |-> FORMAT_ERROR, blink |-> <<>>]
    ELSE [lpm |-> lp, response |-> LPM_RANGE, blink |-> <<>>]

\* the LPM=<n> branch of _handle_custom_command_with_response in mode lp
\* (n = -1: int() raised ValueError): enter_low_power_mode sets the mode and
\* its blink is suppressed by it; exit_low_power_mode clears the mode and
\* blinks
lpm_command(n, lp) ==
    IF n = 1 THEN [lpm |-> TRUE, response |-> LPM_ENABLED,
                   blink |-> IF lp THEN <<>> ELSE blink_led_matrix("enter", TRUE)]
    ELSE IF n = 0 THEN [lpm |-> FALSE, response |-> LPM_DISABLED,
                        blink |-> IF lp THEN blink_led_matrix("exit", FALSE)
                                  ELSE <<>>]
    ELSE IF n = -1 THEN [lpm |-> lp, response |-> FORMAT_ERROR, blink |-> <<>>]
    ELSE [lpm |-> lp, response |-> LPM_RANGE, blink |-> <<>>]

\* _process_command_bytes on amplifier state p in mode lp: the outcomes,
\* each with the response left for the telemetry task, the amplifier state,
\* the mode, the LED fills and whether _delayed_reset was scheduled.
\* TXPOW=<n> and LPM=<n> go through _handle_custom_command_with_response,
\* where the ValueError of a call is reported as a format error (its text
\* follows the prefix)
manha_command(command, p, lp) ==
    LET same(response) == {[response |-> response, pa |-> p, reset |-> FALSE,
                            power |-> -1, error |-> FALSE, lpm |-> lp,
                            is_lpm |-> FALSE, blink |-> <<>>]}
        n == StrToInt(Slice(command, Len(TXPOW_TAG), Len(command)))
        v == StrToInt(Slice(command, Len(LPM_TAG), Len(command)))
    IN IF command = RESET
       THEN {[response |-> RESET_ACK, pa |-> p, reset |-> TRUE, power |-> -1,
              error |-> FALSE, lpm |-> lp, is_lpm |-> FALSE, blink |-> <<>>]}
       ELSE IF StartsWith(command, LPM_TAG) /\ ~StartsWith(command, TXPOW_TAG)
       THEN {[response |-> lpm_command(v, lp).response, pa |-> p,
              reset |-> FALSE, power |-> -1, error |-> FALSE,
              lpm |-> lpm_command(v, lp).lpm, is_lpm |-> TRUE,
              blink |-> lpm_command(v, lp).blink]}
       ELSE IF ~StartsWith(command, TXPOW_TAG) THEN same(command_reply(command))
       ELSE IF n = -1 THEN same(FORMAT_ERROR)
       ELSE IF ~in_range(n)
       THEN {[response |-> TX_POWER_RANGE, pa |-> p, reset |-> FALSE,
              power |-> n, error |-> FALSE, lpm |-> lp, is_lpm |-> FALSE,
              blink |-> <<>>]}
       ELSE {[response |-> IF o.error THEN FORMAT_ERROR
                           ELSE TX_POWER_SET \o IntToStr(n) \o DBM,
              pa |-> o.pa, reset |-> FALSE, power |-> n, error |-> o.error,
              lpm |-> lp, is_lpm |-> FALSE, blink |-> <<>>] :
                o \in link_set_tx_power(p, n)}

\* the activities of a step replace the latest ones, if there are any
Did(acts) == activity' = IF acts = <<>> THEN activity ELSE acts

\* one cycle of lora_tlm_task up to the wait for the ACK
ManhaTlm(txd) ==
    /\ sat_mode = "manha"
    /\ sat_pc = "idle"
    /\ calls < MaxCalls
    /\ calls' = calls + 1
    /\ command_flag' = (command_flag /\ command_response = <<>>)
    /\ command_response' = IF command_flag THEN <<>> ELSE command_response
    /\ LET tlm_bytes == prepare_telemetry(command_flag, command_response)
           frame == encode(Packet(lora_address_to, sat_id, tlm_bytes))
           c == [call |-> calls + 1, json_str |-> tlm_bytes,
                 target_addr |-> lora_address_to, max_size |-> 0,
                 part_num |-> 0, total_parts |-> 0]
       IN /\ sat_tx' = Append(sat_tx, [frame |-> frame, call |-> c.call, part |-> 0])
          /\ to_gs' = to_gs \o (IF txd THEN <<OnAir(frame, c.call, 0, 0)>> ELSE <<>>)
          /\ tx_timeouts' = IF txd THEN tx_timeouts ELSE tx_timeouts + 1
          /\ cur' = c
          /\ sat_pc' = IF txd THEN "simple_ack" ELSE "listen"
          /\ sat_results' = IF txd THEN sat_results
                            ELSE Append(sat_results,
                                   [call |-> c.call, ok |-> FALSE, at |-> 0,
                                    json_str |-> c.json_str, total |-> c.total_parts])
    /\ Did(IF txd THEN <<>> ELSE blink_led_matrix("no_ack", low_power_mode))
    /\ UNCHANGED <<sat_mode, sat_id, ground_station_address, reset_occurred,
                   sat_log, to_sat, damaged, gs_vars, low_power_mode, lpm_call>>

\* _wait_for_simple_ack reads a frame
ManhaAckRecv ==
    /\ sat_pc = "simple_ack"
    /\ to_sat # <<>>
    /\ LET r == Head(to_sat) IN
         /\ to_sat' = Tail(to_sat)
         /\ sat_log' = Append(sat_log,
                         [frame |-> r.frame, where |-> "simple_ack",
                          sent |-> <<>>, handled |-> <<>>,
                          expected |-> 0, call |-> cur.call,
                          outcome |-> IF simple_ack(r.frame) THEN "acked"
                                      ELSE "waiting"])
         /\ IF simple_ack(r.frame)
            THEN /\ sat_pc' = "listen"
                 /\ sat_results' = Append(sat_results,
                                     [call |-> cur.call, ok |-> TRUE, at |-> 0,
                                      json_str |-> cur.json_str, total |-> cur.total_parts])
            ELSE UNCHANGED <<sat_pc, sat_results>>
         /\ Did(IF simple_ack(r.frame)
                THEN blink_led_matrix("ack", low_power_mode) ELSE <<>>)
    /\ UNCHANGED <<sat_mode, sat_id, ground_station_address, reset_occurred, cur,
                   calls, tx_timeouts, sat_tx, command_flag, command_response,
                   to_gs, damaged, gs_vars, low_power_mode, lpm_call>>

\* the deadline of _wait_for_simple_ack passes: nothing is on its way any more
ManhaAckTimeout ==
    /\ sat_pc = "simple_ack"
    /\ to_sat = <<>>
    /\ to_gs = <<>>
    /\ sat_pc' = "listen"
    /\ sat_results' = Append(sat_results, [call |-> cur.call, ok |-> FALSE, at |-> 0,
                              json_str |-> cur.json_str, total |-> cur.total_parts])
    /\ sat_log' = Append(sat_log, Deadline(cur))
    /\ Did(blink_led_matrix("no_ack", low_power_mode))
    /\ UNCHANGED <<sat_mode, sat_id, ground_station_address, reset_occurred, cur,
                   calls, tx_timeouts, sat_tx, command_flag,
                   command_response, air_vars, gs_vars, low_power_mode, lpm_call>>

\* _listen_for_commands reads a frame
ManhaListenRecv ==
    /\ sat_pc = "listen"
    /\ to_sat # <<>>
    /\ LET r == Head(to_sat)
           packet == decode(r.frame)
           valid == ~packet.none /\ is_valid_checksum(packet)
           is_cmd == valid /\ StartsWith(packet.message, CMD_TAG)
           command == Strip(Slice(packet.message, 4, Len(packet.message)))
       IN /\ to_sat' = Tail(to_sat)
          /\ sat_log' = Append(sat_log,
                          [frame |-> r.frame, where |-> "listen",
                           sent |-> <<>>,
                           handled |-> IF is_cmd THEN <<command>> ELSE <<>>,
                           expected |-> -1, call |-> 0, outcome |-> "none"])
          /\ command_flag' = IF is_cmd THEN TRUE ELSE command_flag
          /\ IF is_cmd
             THEN \E o \in manha_command(command, pa["sat"], low_power_mode) :
                    /\ command_response' = o.response
                    /\ pa' = [pa EXCEPT !["sat"] = o.pa]
                    /\ reset_due' = (reset_due \/ o.reset)
                    /\ pow_call' = IF o.power = -1 THEN pow_call
                                   ELSE [on |-> "txpow", n |-> o.power,
                                         error |-> o.error, before |-> pa["sat"],
                                         after |-> o.pa, response |-> o.response]
                    /\ low_power_mode' = o.lpm
                    /\ lpm_call' =
                         IF ~o.is_lpm THEN lpm_call
                         ELSE [on |-> TRUE,
                               n |-> StrToInt(Slice(command, Len(LPM_TAG),
                                                    Len(command))),
                               before |-> low_power_mode, after |-> o.lpm,
                               response |-> o.response]
                    \* led_matrix.fill(BLUE) comes first, whatever the mode
                    /\ Did(<<Led("command", low_power_mode)>> \o o.blink)
             ELSE UNCHANGED <<command_response, pa, reset_due, pow_call, host_vars>>
          /\ sat_pc' = IF valid THEN "idle" ELSE sat_pc
          /\ cur' = IF valid THEN NoCur ELSE cur
          /\ UNCHANGED <<marker, marker_at, boots>>
    /\ UNCHANGED <<sat_mode, sat_id, ground_station_address, reset_occurred,
                   calls, tx_timeouts, sat_results, sat_tx, to_gs, damaged,
                   gs_vars>>

\* the listen time of _listen_for_commands ends with nothing received
ManhaListenTimeout ==
    /\ sat_pc = "listen"
    /\ to_sat = <<>>
    /\ sat_pc' = "idle"
    /\ cur' = NoCur
    /\ UNCHANGED <<sat_mode, sat_id, ground_station_address, reset_occurred,
                   calls, tx_timeouts, sat_results, sat_tx, sat_log,
                   command_flag, command_response, air_vars, gs_vars>>

(***************************************************************************)
(* The air: a frame in flight is lost, or arrives damaged.                 *)
(***************************************************************************)
\* what arrives of frame f
Damage(f, kind) ==
    IF kind = "cut" THEN SubSeq(f, 1, Min(2, Len(f)))
    ELSE [f EXCEPT ![3] = (@ + 1) % 256]

DamageKinds == {"cut", "checksum"}

Damaged(r, kind) == [r EXCEPT !.frame = Damage(r.frame, kind)]

LoseToGs ==
    /\ damaged + tx_timeouts < MaxFaults
    /\ to_gs # <<>>
    /\ to_gs' = Tail(to_gs)
    /\ damaged' = damaged + 1
    /\ UNCHANGED <<sat_vars, to_sat, gs_vars>>

LoseToSat ==
    /\ damaged + tx_timeouts < MaxFaults
    /\ to_sat # <<>>
    /\ to_sat' = Tail(to_sat)
    /\ damaged' = damaged + 1
    /\ UNCHANGED <<sat_vars, to_gs, gs_vars>>

CorruptToGs(kind) ==
    /\ damaged + tx_timeouts < MaxFaults
    /\ to_gs # <<>>
    /\ to_gs' = <<Damaged(Head(to_gs), kind)>> \o Tail(to_gs)
    /\ damaged' = damaged + 1
    /\ UNCHANGED <<sat_vars, to_sat, gs_vars>>

CorruptToSat(kind) ==
    /\ damaged + tx_timeouts < MaxFaults
    /\ to_sat # <<>>
    /\ to_sat' = <<Damaged(Head(to_sat), kind)>> \o Tail(to_sat)
    /\ damaged' = damaged + 1
    /\ UNCHANGED <<sat_vars, to_gs, gs_vars>>

Next ==
    \/ GsReceive /\ UNCHANGED <<ext_vars, radio_vars, sys_vars, host_vars>>
    \/ \E c \in Commands : GsSendCommand(c) /\ UNCHANGED <<ext_vars, radio_vars, sys_vars, host_vars>>
    \/ \E snd \in Sends, t \in Targets, txd \in TxOutcomes :
          SendTelemetry(snd[1], t, snd[2], txd) /\ UNCHANGED <<ext_vars, radio_vars, sys_vars, host_vars>>
    \/ \E txd \in TxOutcomes : SatListenRecv(txd) /\ UNCHANGED <<ext_vars, radio_vars, host_vars>>
    \/ \E txd \in TxOutcomes : SatAckTimeout(txd) /\ UNCHANGED <<ext_vars, radio_vars, sys_vars, host_vars>>
    \/ SatReceiverRecv /\ UNCHANGED <<ext_vars, radio_vars, host_vars>>
    \/ \E txd \in TxOutcomes : ManhaTlm(txd) /\ UNCHANGED <<ext_vars, radio_vars, sys_vars>>
    \/ ManhaAckRecv /\ UNCHANGED <<ext_vars, radio_vars, sys_vars>>
    \/ ManhaAckTimeout /\ UNCHANGED <<ext_vars, radio_vars, sys_vars>>
    \/ ManhaListenRecv /\ UNCHANGED <<radio_vars, ext_vars>>
    \/ ManhaListenTimeout /\ UNCHANGED <<ext_vars, radio_vars, sys_vars, host_vars>>
    \/ LoseToGs /\ UNCHANGED <<ext_vars, radio_vars, sys_vars, host_vars>>
    \/ LoseToSat /\ UNCHANGED <<ext_vars, radio_vars, sys_vars, host_vars>>
    \/ \E kind \in DamageKinds : CorruptToGs(kind) /\ UNCHANGED <<ext_vars, radio_vars, sys_vars, host_vars>>
    \/ \E kind \in DamageKinds : CorruptToSat(kind) /\ UNCHANGED <<ext_vars, radio_vars, sys_vars, host_vars>>

Spec == Init /\ [][Next]_vars

(***************************************************************************)
(* The ground station fed directly: the wrappers of three multipart        *)
(* messages handed to _process_received_data in any order, any number of   *)
(* times.                                                                  *)
(***************************************************************************)
\* the messages, by number: two of two parts, one of three parts
ReasmMsgs ==
    <<[json_str |-> JsonA, max_size |-> MaxSizeLarge],
      [json_str |-> JsonB, max_size |-> MaxSizeLarge],
      [json_str |-> JsonC, max_size |-> MaxSizeSmall]>>

PartsOf(m) == total_parts_of(ReasmMsgs[m].json_str, ReasmMsgs[m].max_size)

\* the frame of part p of message m, as the satellite builds it
WrapperFrame(m, p) ==
    encode(Packet(gs_id, sat_id,
                  multipart_payload(ReasmMsgs[m].json_str, ReasmMsgs[m].max_size, p)))

DeliverPart(m, p) ==
    /\ Len(gs_log) < MaxDeliveries
    /\ GsHandle(OnAir(WrapperFrame(m, p), m, p, PartsOf(m)))
    /\ UNCHANGED <<sat_vars, to_gs, damaged, gs_id, satellite_address, cmds>>

InitReasm == Init /\ sat_mode = "link" /\ ~reset_occurred

NextReasm == \E m \in 1..Len(ReasmMsgs) : \E p \in 1..PartsOf(m) : DeliverPart(m, p)
        /\ UNCHANGED <<ext_vars, radio_vars, sys_vars, host_vars>>

SpecReasm == InitReasm /\ [][NextReasm]_vars

(***************************************************************************)
(* Fragmentation: send_telemetry(data, ground station, max_size) for texts *)
(* and sizes on both sides of every boundary of the part arithmetic, on a  *)
(* link that loses nothing.                                                *)
(***************************************************************************)
\* (json.dumps(data), max_size): one frame (8 <= 51, 85 <= 85, 85 <= 86,
\* 115 <= 115) and 9, 5, 3, 2 and 2 parts; 85 = 5 * (67 - 50)
FragSends ==
    {<<JsonS, RESERVED + 1>>,
     <<JsonC, 60>>, <<JsonC, 67>>, <<JsonC, 84>>, <<JsonC, 85>>, <<JsonC, 86>>,
     <<JsonB, 110>>, <<JsonB, 114>>, <<JsonB, 115>>}

InitFrag == Init /\ sat_mode = "link" /\ ~reset_occurred

NextFrag ==
    \/ \E s \in FragSends :
          SendTelemetry(s[1], GS_ADDR, s[2], TRUE) /\ UNCHANGED <<ext_vars, radio_vars, sys_vars, host_vars>>
    \/ GsReceive /\ UNCHANGED <<ext_vars, radio_vars, sys_vars, host_vars>>
    \/ SatListenRecv(TRUE) /\ UNCHANGED <<ext_vars, radio_vars, host_vars>>

SpecFrag == InitFrag /\ [][NextFrag]_vars

(***************************************************************************)
(* Frame lengths: send_telemetry with the default max_size and             *)
(* send_command with a text typed by the operator                          *)
(* (src/manha/gs/gs.py send_command hands it on unchanged).                *)
(***************************************************************************)
\* json.dumps({"a": '"' * 100}): {"a": "\"\"...\""}, 209 characters
JsonQ ==
    <<123, 34, 97, 34, 58, 32, 34>>
      \o [i \in 1..DEFAULT_MAX_SIZE |-> IF i % 2 = 1 THEN Ch.bslash ELSE Ch.quote]
      \o <<Ch.quote, Ch.rbrace>>

\* a command text of 250 characters
LongCommand == Rep(Ch.z, DEFAULT_MAX_SIZE + RESERVED)

LenSends == {<<JsonS, DEFAULT_MAX_SIZE>>, <<JsonQ, DEFAULT_MAX_SIZE>>}

LenCommands == {PING, LongCommand}

InitLen == Init /\ sat_mode = "link" /\ ~reset_occurred

NextLen ==
    \/ GsReceive /\ UNCHANGED <<ext_vars, radio_vars, sys_vars, host_vars>>
    \/ \E c \in LenCommands : GsSendCommand(c) /\ UNCHANGED <<ext_vars, radio_vars, sys_vars, host_vars>>
    \/ \E snd \in LenSends, txd \in BOOLEAN :
          SendTelemetry(snd[1], GS_ADDR, snd[2], txd) /\ UNCHANGED <<ext_vars, radio_vars, sys_vars, host_vars>>
    \/ \E txd \in BOOLEAN : SatListenRecv(txd) /\ UNCHANGED <<ext_vars, radio_vars, host_vars>>
    \/ \E txd \in BOOLEAN : SatAckTimeout(txd) /\ UNCHANGED <<ext_vars, radio_vars, sys_vars, host_vars>>
    \/ SatReceiverRecv /\ UNCHANGED <<ext_vars, radio_vars, host_vars>>

SpecLen == InitLen /\ [][NextLen]_vars

(***************************************************************************)
(* The modem driver (src/manha/internals/drivers/rfm9x.py) under the tasks *)
(* of both sides: send_heartbeat and send_command of the ground station    *)
(* (src/manha/gs/gs.py), the two _receiver_loops, send_ack, send_telemetry *)
(* and _send_command_response of the Links, and MANHA.lora_tlm_task, which *)
(* drives the modem itself.  Frames are told apart by kind only: "cmd",    *)
(* "ack", "tlm", "rsp".                                                    *)
(***************************************************************************)
link_vars_but_ext == <<sat_vars, air_vars, gs_vars, sys_vars, host_vars>>
link_vars == <<link_vars_but_ext, ext_vars>>

\* set_mode_idle / set_mode_tx / set_mode_rx: REG_01_OP_MODE is written only
\* when RFM9x._mode differs
set_mode(m, target) ==
    IF m.mode # target THEN [m EXCEPT !.chip = target, !.mode = target] ELSE m

\* RFM9x._mode is set without the register being written
set_mode_idle_m(m) == [m EXCEPT !.mode = "STDBY"]

set_mode_idle(m) == set_mode(m, "STDBY")

set_mode_tx(m) == set_mode(m, "TX")

set_mode_rx(m) == set_mode(m, "RXCONTINUOUS")

\* RFM9x.send(data): standby, FIFO address pointer, FIFO and payload length
\* written, then TX
send(m, kind) == set_mode_tx([set_mode_idle(m) EXCEPT !.fifo = kind])

\* RFM9x.recv_data() once RX_DONE is set: the frame, all IRQ flags cleared
recv_data(m) == [set_mode_rx(m) EXCEPT !.irq = {}, !.rx = "none"]

\* RFM9x.clear_irq_flags() leaving the flags set
clear_irq_flags_m(m) == m

\* RFM9x.clear_irq_flags()
clear_irq_flags(m) == [m EXCEPT !.irq = {}]

\* the lock is taken for free whoever holds it
lock_free_m(s) == TRUE

\* asyncio.Lock: `async with self._lock` goes on when nobody holds the lock
lock_free(s) == lock[s] = "free"

\* the FIFO load of task t on modem state m: the chip's mode when the task
\* came to send, its mode when the FIFO registers are written (after the
\* set_mode_idle() of the caller and the one of RFM9x.send), and the tasks of
\* the same side that loaded a frame and have neither seen TX_DONE nor
\* timed out
LoadRecord(t, m) ==
    [side |-> SideOf(t), task |-> t, before |-> m.chip,
     chip |-> set_mode_idle(set_mode_idle(m)).chip,
     in_flight |-> {u \in Tasks \ {t} :
                      SideOf(u) = SideOf(t) /\ task[u].pc = "tx_wait"}]

\* async with self._lock: self._modem.set_mode_idle(); self._modem.send(...)
\* (send_command, send_ack, _send_packet_with_ack, _send_command_response)
LinkSend(t, kind, next) ==
    /\ lock_free(SideOf(t))
    /\ lock' = [lock EXCEPT ![SideOf(t)] = t]
    /\ modem' = [modem EXCEPT ![SideOf(t)] = send(set_mode_idle(@), kind)]
    /\ last_load' = LoadRecord(t, modem[SideOf(t)])
    /\ task' = [task EXCEPT ![t] = At("tx_wait", kind, next)]

\* send_heartbeat's PING (t = "gs_hb") or a command of the operator ("gs_cmd")
GsCommandSend(t) ==
    /\ task[t].pc = "idle"
    /\ LinkSend(t, "cmd", "idle")
    /\ last_cmd' = [task |-> t, loads |-> 1, tx_done |-> FALSE, ret |-> "pending"]
    /\ UNCHANGED link_vars

\* send_ack from the ground station's receiver, _send_command_response from
\* the satellite's tasks: the send that was waiting for the lock
PendingSend(t) ==
    /\ task[t].pc = "send"
    /\ LinkSend(t, task[t].kind, task[t].next)
    /\ UNCHANGED <<last_cmd, link_vars>>

\* LoRa.send_telemetry -> _send_packet_with_ack
SatTelemetrySend ==
    /\ sat_mode = "link"
    /\ task["sat_tlm"].pc = "idle"
    /\ LinkSend("sat_tlm", "tlm", "ack_wait")
    /\ UNCHANGED <<last_cmd, link_vars>>

\* MANHA.lora_tlm_task: set_mode_idle and send on self.lora._modem, no lock
ManhaSend ==
    /\ sat_mode = "manha"
    /\ task["sat_tlm"].pc = "idle"
    /\ modem' = [modem EXCEPT !["sat"] = send(set_mode_idle(@), "tlm")]
    /\ last_load' = LoadRecord("sat_tlm", modem["sat"])
    /\ task' = [task EXCEPT !["sat_tlm"] = At("tx_wait", "tlm", "ack_wait")]
    /\ UNCHANGED <<lock, last_cmd, link_vars>>

\* where a task goes on when its send failed
FailNext(t) == IF t \in {"gs_rx", "sat_rx"} THEN "rx_top" ELSE "idle"

\* does task t hold the lock of its Link?  MANHA's task never takes it
Locked(t) == lock[SideOf(t)] = t

\* send_command returns what _wait_for_tx_complete returned to task t
Returned(t, ret) ==
    IF last_cmd.task = t /\ last_cmd.ret = "pending"
    THEN [last_cmd EXCEPT !.ret = ret] ELSE last_cmd

\* _wait_for_tx_complete / MANHA._wait_tx_done reads TX_DONE
TxObserved(t) ==
    /\ task[t].pc = "tx_wait"
    /\ "TX_DONE" \in modem[SideOf(t)].irq
    /\ modem' = [modem EXCEPT ![SideOf(t)] =
                    IF Locked(t) THEN set_mode_idle(clear_irq_flags(@))
                    ELSE clear_irq_flags(@)]
    /\ lock' = IF Locked(t) THEN [lock EXCEPT ![SideOf(t)] = "free"] ELSE lock
    /\ task' = [task EXCEPT ![t] = At(task[t].next, "none", FailNext(t))]
    /\ last_cmd' = Returned(t, "true")
    /\ UNCHANGED <<last_load, link_vars>>

\* the 2000 ms of the wait pass: the chip is not transmitting any more and
\* TX_DONE is not set
TxTimedOut(t) ==
    /\ task[t].pc = "tx_wait"
    /\ "TX_DONE" \notin modem[SideOf(t)].irq
    /\ modem[SideOf(t)].chip # "TX"
    /\ modem' = [modem EXCEPT ![SideOf(t)] =
                    IF Locked(t) THEN set_mode_idle(@) ELSE @]
    /\ lock' = IF Locked(t) THEN [lock EXCEPT ![SideOf(t)] = "free"] ELSE lock
    /\ task' = [task EXCEPT ![t] = At(FailNext(t), "none", FailNext(t))]
    /\ last_cmd' = Returned(t, "false")
    /\ UNCHANGED <<last_load, link_vars>>

\* the chip of side s finishes its transmission: it falls back to standby
\* and raises TX_DONE; the other chip raises RX_DONE when it was receiving
ChipTxDone(s) ==
    /\ modem[s].chip = "TX"
    /\ modem' = [x \in Sides |->
                   IF x = s
                   THEN [modem[s] EXCEPT !.chip = "STDBY", !.irq = @ \cup {"TX_DONE"}]
                   ELSE IF modem[x].chip = "RXCONTINUOUS"
                   THEN [modem[x] EXCEPT !.irq = @ \cup {"RX_DONE"},
                                         !.rx = modem[s].fifo]
                   ELSE modem[x]]
    /\ last_cmd' = IF s = "gs" /\ last_cmd.ret = "pending" /\ modem[s].fifo = "cmd"
                   THEN [last_cmd EXCEPT !.tx_done = TRUE] ELSE last_cmd
    /\ UNCHANGED <<lock, task, last_load, link_vars>>

\* may the receiver task t run?  MANHA never starts the Link's receiver
Runs(t) == t = "gs_rx" \/ (t = "sat_rx" /\ sat_mode = "link")

\* _receiver_loop, top of the outer loop: self._modem.set_mode_rx()
ReceiverTop(t) ==
    /\ Runs(t)
    /\ task[t].pc = "rx_top"
    /\ modem' = [modem EXCEPT ![SideOf(t)] = set_mode_rx(@)]
    /\ task' = [task EXCEPT ![t] = At("rx_poll", "none", "rx_top")]
    /\ UNCHANGED <<lock, last_load, last_cmd, link_vars>>

\* the frame kind a side answers, and the kind of its answer
Answers(s) == IF s = "gs" THEN [to |-> "tlm", with |-> "ack"]
              ELSE [to |-> "cmd", with |-> "rsp"]

\* _receiver_loop sees RX_DONE: recv_data, _process_received_data
ReceiverRecv(t) ==
    /\ Runs(t)
    /\ task[t].pc = "rx_poll"
    /\ "RX_DONE" \in modem[SideOf(t)].irq
    /\ modem' = [modem EXCEPT ![SideOf(t)] = recv_data(@)]
    /\ task' = [task EXCEPT ![t] =
                  IF modem[SideOf(t)].rx = Answers(SideOf(t)).to
                  THEN At("send", Answers(SideOf(t)).with, "rx_top")
                  ELSE At("rx_top", "none", "rx_top")]
    /\ UNCHANGED <<lock, last_load, last_cmd, link_vars>>

\* _receiver_loop: 1000 ms without RX_DONE
ReceiverPollTimeout(t) ==
    /\ Runs(t)
    /\ task[t].pc = "rx_poll"
    /\ "RX_DONE" \notin modem[SideOf(t)].irq
    /\ task' = [task EXCEPT ![t] = At("rx_top", "none", "rx_top")]
    /\ UNCHANGED <<modem, lock, last_load, last_cmd, link_vars>>

\* _listen_for_packet / _wait_for_simple_ack: set_mode_rx()
TlmListenMode ==
    /\ task["sat_tlm"].pc = "ack_wait"
    /\ modem["sat"].mode # "RXCONTINUOUS"
    /\ modem' = [modem EXCEPT !["sat"] = set_mode_rx(@)]
    /\ UNCHANGED <<lock, task, last_load, last_cmd, link_vars>>

\* _listen_for_packet / _wait_for_simple_ack sees RX_DONE; the Link answers
\* a command before _wait_for_ack returns
TlmListenRecv ==
    /\ task["sat_tlm"].pc = "ack_wait"
    /\ "RX_DONE" \in modem["sat"].irq
    /\ modem' = [modem EXCEPT !["sat"] = recv_data(@)]
    /\ task' = [task EXCEPT !["sat_tlm"] =
                  IF sat_mode = "link" /\ modem["sat"].rx = "cmd"
                  THEN At("send", "rsp", "idle")
                  ELSE At("idle", "none", "idle")]
    /\ UNCHANGED <<lock, last_load, last_cmd, link_vars>>

\* the deadline of the wait for the ACK passes
TlmListenTimeout ==
    /\ task["sat_tlm"].pc = "ack_wait"
    /\ "RX_DONE" \notin modem["sat"].irq
    /\ task' = [task EXCEPT !["sat_tlm"] = At("idle", "none", "idle")]
    /\ UNCHANGED <<modem, lock, last_load, last_cmd, link_vars>>

InitRadio == Init /\ ~reset_occurred

NextRadio ==
    \/ \E t \in {"gs_hb", "gs_cmd"} : GsCommandSend(t)
    \/ \E t \in Tasks : PendingSend(t)
    \/ SatTelemetrySend
    \/ ManhaSend
    \/ \E t \in Tasks : TxObserved(t)
    \/ \E t \in Tasks : TxTimedOut(t)
    \/ \E s \in Sides : ChipTxDone(s)
    \/ \E t \in {"gs_rx", "sat_rx"} : ReceiverTop(t)
    \/ \E t \in {"gs_rx", "sat_rx"} : ReceiverRecv(t)
    \/ \E t \in {"gs_rx", "sat_rx"} : ReceiverPollTimeout(t)
    \/ TlmListenMode
    \/ TlmListenRecv
    \/ TlmListenTimeout

SpecRadio == InitRadio /\ [][NextRadio]_vars

(***************************************************************************)
(* Commands: PING, RESET and TXPOW=<n> sent by the ground station, handled *)
(* by the satellite Link (_handle_ping, _handle_reset) or by MANHA         *)
(* (_process_command_bytes, _delayed_reset), and the boot that follows a   *)
(* hardware reset.                                                         *)
(***************************************************************************)
\* the constructors run again after machine.reset(): _check_reset_file
\* removes the marker and remembers it in _reset_occurred
Reboot(marker_now, written_at) ==
    /\ sat_pc' = "idle"
    /\ cur' = NoCur
    /\ ground_station_address' = -1
    /\ reset_occurred' = marker_now
    /\ command_flag' = FALSE
    /\ command_response' = <<>>
    /\ marker' = FALSE
    /\ marker_at' = written_at
    /\ reset_due' = FALSE
    /\ pa' = [pa EXCEPT !["sat"] = DefaultPa]
    /\ boots' = Append(boots, [marker |-> marker_now, marker_at |-> written_at,
                               at |-> Len(sat_tx)])
    /\ UNCHANGED <<sat_mode, sat_id, calls, tx_timeouts, sat_results, sat_tx,
                   sat_log, air_vars, gs_vars, pow_call, radio_vars, ext_vars, lpm_call>>
    /\ low_power_mode' = FALSE
    /\ activity' = <<Led("init", FALSE)>>

\* LoRa._handle_reset: reset() after the 1000 ms sleep
LinkReset ==
    /\ sat_mode = "link"
    /\ reset_due
    /\ Reboot(marker, marker_at)

\* MANHA._delayed_reset after its 1000 ms sleep: the marker is written, but
\* machine.reset() follows also when the write raised
ManhaDelayedReset(fs_ok) ==
    /\ sat_mode = "manha"
    /\ reset_due
    /\ Reboot(marker \/ fs_ok, IF fs_ok THEN Len(sat_tx) ELSE marker_at)

\* the arguments of the TXPOW commands sent
TxpowArgs == {4, 5, 14, 23, 24}

CmdCommands == {PING, RESET} \cup {TXPOW_TAG \o IntToStr(n) : n \in TxpowArgs}

InitCmd == Init /\ ~reset_occurred

NextCmd ==
    \/ GsReceive /\ UNCHANGED <<ext_vars, radio_vars, sys_vars, host_vars>>
    \/ \E c \in CmdCommands : GsSendCommand(c) /\ UNCHANGED <<ext_vars, radio_vars, sys_vars, host_vars>>
    \/ SendTelemetry(JsonS, -1, MaxSizeSmall, TRUE) /\ UNCHANGED <<ext_vars, radio_vars, sys_vars, host_vars>>
    \/ SatListenRecv(TRUE) /\ UNCHANGED <<ext_vars, radio_vars, host_vars>>
    \/ SatAckTimeout(TRUE) /\ UNCHANGED <<ext_vars, radio_vars, sys_vars, host_vars>>
    \/ SatReceiverRecv /\ UNCHANGED <<ext_vars, radio_vars, host_vars>>
    \/ ManhaTlm(TRUE) /\ UNCHANGED <<ext_vars, radio_vars, sys_vars>>
    \/ ManhaAckRecv /\ UNCHANGED <<ext_vars, radio_vars, sys_vars>>
    \/ ManhaAckTimeout /\ UNCHANGED <<ext_vars, radio_vars, sys_vars>>
    \/ ManhaListenRecv /\ UNCHANGED <<radio_vars, ext_vars>>
    \/ ManhaListenTimeout /\ UNCHANGED <<ext_vars, radio_vars, sys_vars, host_vars>>
    \/ LinkReset
    \/ \E fs_ok \in BOOLEAN : ManhaDelayedReset(fs_ok)

SpecCmd == InitCmd /\ [][NextCmd]_vars

(***************************************************************************)
(* set_tx_power called with each argument, on the driver and on a Link.    *)
(***************************************************************************)
PowerArgs ==
    {0, POWER_MIN - 1, POWER_MIN, POWER_MIN + DAC_GAIN - 1, POWER_MIN + DAC_GAIN,
     DEFAULT_TX_POWER, POWER_DAC_OFF - 1, POWER_DAC_OFF, POWER_MAX}
       \cup ((POWER_MAX + 1)..MaxPowerArg)

\* RFM9x.set_tx_power(n) on the modem of side s
ModemSetTxPower(s, n) ==
    /\ \E o \in modem_set_tx_power(pa[s], n) :
          /\ pa' = [pa EXCEPT ![s] = o.pa]
          /\ pow_call' = [on |-> "modem", n |-> n, error |-> o.error,
                          before |-> pa[s], after |-> o.pa, response |-> <<>>]
    /\ UNCHANGED <<sat_vars, air_vars, gs_vars, radio_vars, ext_vars, marker, marker_at,
                   reset_due, boots, host_vars>>

\* LoRa.set_tx_power(n) of the Link of side s
LinkSetTxPower(s, n) ==
    /\ \E o \in link_set_tx_power(pa[s], n) :
          /\ pa' = [pa EXCEPT ![s] = o.pa]
          /\ pow_call' = [on |-> "link", n |-> n, error |-> o.error,
                          before |-> pa[s], after |-> o.pa, response |-> <<>>]
    /\ UNCHANGED <<sat_vars, air_vars, gs_vars, radio_vars, ext_vars, marker, marker_at,
                   reset_due, boots, host_vars>>

InitPow == Init /\ sat_mode = "link" /\ ~reset_occurred

NextPow ==
    \/ \E s \in Sides, n \in PowerArgs : ModemSetTxPower(s, n)
    \/ \E s \in Sides, n \in PowerArgs : LinkSetTxPower(s, n)

SpecPow == InitPow /\ [][NextPow]_vars

(***************************************************************************)
(* Low-power mode: LPM=<n> commands handled by MANHA beside its sensor     *)
(* task (read_sensors_task).                                               *)
(***************************************************************************)
\* what an essential sensor reports about the supply: below the power
\* threshold, at or above it, or no v_p reading
Supply == {"low", "ok", "none"}

\* one cycle of read_sensors_task: the essential sensors are read and the
\* power threshold is applied, then the non-essential sensors are read
\* unless the mode is on
ReadSensors(v_p) ==
    /\ sat_mode = "manha"
    /\ LET enter == v_p = "low" /\ ~low_power_mode
           exit == v_p = "ok" /\ low_power_mode
           lp == IF enter THEN TRUE ELSE IF exit THEN FALSE ELSE low_power_mode
       IN /\ low_power_mode' = lp
          /\ Did((IF enter THEN blink_led_matrix("enter", lp)
                  ELSE IF exit THEN blink_led_matrix("exit", lp) ELSE <<>>)
                 \o (IF lp THEN <<>> ELSE <<SensorRead(lp)>>))
    /\ UNCHANGED <<sat_vars, air_vars, gs_vars, radio_vars, ext_vars, sys_vars, lpm_call>>

LpmArgs == {"0", "1", "2", "x"}

LpmText(a) ==
    LPM_TAG \o (CASE a = "0" -> <<48>> [] a = "1" -> <<49>> [] a = "2" -> <<50>>
                  [] OTHER -> <<Ch.x>>)

LpmCommands == {PING} \cup {LpmText(a) : a \in LpmArgs}

InitLpm == Init /\ sat_mode = "manha"

NextLpm ==
    \/ GsReceive /\ UNCHANGED <<ext_vars, radio_vars, sys_vars, host_vars>>
    \/ \E c \in LpmCommands :
          GsSendCommand(c) /\ UNCHANGED <<ext_vars, radio_vars, sys_vars, host_vars>>
    \/ \E txd \in BOOLEAN : ManhaTlm(txd) /\ UNCHANGED <<ext_vars, radio_vars, sys_vars>>
    \/ ManhaAckRecv /\ UNCHANGED <<ext_vars, radio_vars, sys_vars>>
    \/ ManhaAckTimeout /\ UNCHANGED <<ext_vars, radio_vars, sys_vars>>
    \/ ManhaListenRecv /\ UNCHANGED <<radio_vars, ext_vars>>
    \/ ManhaListenTimeout /\ UNCHANGED <<ext_vars, radio_vars, sys_vars, host_vars>>
    \/ \E v_p \in Supply : ReadSensors(v_p)

SpecLpm == InitLpm /\ [][NextLpm]_vars

(***************************************************************************)
(* The ground station's receiver handed frames: any frame the modem can    *)
(* deliver, whoever sent it.                                               *)
(***************************************************************************)
\* the receiver loop reads frame f
Deliver(f) ==
    /\ Len(gs_log) < MaxDeliveries
    /\ GsHandle(OnAir(f, 0, -1, 0))
    /\ UNCHANGED <<sat_vars, to_gs, damaged, gs_id, satellite_address, cmds>>

\* command responses: the texts, framed as _send_command_response frames
\* them, and a frame without CRLF, one for another address and one with a
\* wrong checksum
RspTexts ==
    {PONG, PING_OK, TX_POWER_SET \o IntToStr(POWER_MIN) \o DBM, <<>>,
     <<Ch.space>> \o PONG}

RspFrames ==
    {cmd_frame(t, GS_ADDR, LORA_ADDR) : t \in RspTexts}
       \cup {encode(Packet(GS_ADDR, LORA_ADDR, CMD_TAG \o PONG)),
             cmd_frame(PONG, BROADCAST, LORA_ADDR),
             Damage(cmd_frame(PONG, GS_ADDR, LORA_ADDR), "checksum")}

InitRsp == Init /\ sat_mode = "link" /\ ~reset_occurred

NextRsp == \E f \in RspFrames : Deliver(f) /\ UNCHANGED <<ext_vars, radio_vars, sys_vars, host_vars>>

SpecRsp == InitRsp /\ [][NextRsp]_vars

(***************************************************************************)
(* The satellite Link hearing frames of several senders, valid or not,     *)
(* while it sends telemetry with no target given.                          *)
(***************************************************************************)
\* addresses of stations that transmit on the channel
Stations == {0, GS_ADDR, GS_ADDR + 1}

PeerFrames ==
    {cmd_frame(PING, LORA_ADDR, a) : a \in Stations}
       \cup {Damage(cmd_frame(PING, LORA_ADDR, GS_ADDR + 1), "checksum")}

\* frame f arrives at the satellite's modem
Hear(f) ==
    /\ Len(sat_log) + Len(to_sat) < MaxHeard
    /\ to_sat' = Append(to_sat, OnAir(f, 0, -1, 0))
    /\ UNCHANGED <<sat_vars, to_gs, damaged, gs_vars>>

InitPeer == Init /\ sat_mode = "link" /\ ~reset_occurred

NextPeer ==
    \/ \E f \in PeerFrames : Hear(f) /\ UNCHANGED <<ext_vars, radio_vars, sys_vars, host_vars>>
    \/ GsReceive /\ UNCHANGED <<ext_vars, radio_vars, sys_vars, host_vars>>
    \/ SendTelemetry(JsonS, -1, MaxSizeSmall, TRUE)
          /\ UNCHANGED <<ext_vars, radio_vars, sys_vars, host_vars>>
    \/ SatListenRecv(TRUE) /\ UNCHANGED <<ext_vars, radio_vars, host_vars>>
    \/ SatAckTimeout(TRUE) /\ UNCHANGED <<ext_vars, radio_vars, sys_vars, host_vars>>
    \/ SatReceiverRecv /\ UNCHANGED <<ext_vars, radio_vars, host_vars>>

SpecPeer == InitPeer /\ [][NextPeer]_vars

(***************************************************************************)
(* Wrappers whose _part exceeds _total among the parts of a message.       *)
(***************************************************************************)
InitDrop == Init /\ sat_mode = "link" /\ ~reset_occurred

NextDrop ==
    \E m \in 1..Len(ReasmMsgs) : \E p \in 1..(PartsOf(m) + 1) :
       DeliverPart(m, p) /\ UNCHANGED <<ext_vars, radio_vars, sys_vars, host_vars>>

SpecDrop == InitDrop /\ [][NextDrop]_vars

(***************************************************************************)
(* Two senders: the wrappers of one message from each of two sender        *)
(* addresses handed to _process_received_data in any order, any number of  *)
(* times.                                                                  *)
(***************************************************************************)
\* (sender address, message): a message of two parts and one of three
MixStreams == {<<sat_id, 1>>, <<GS_ADDR + 1, Len(ReasmMsgs)>>}

MixSenders == {st[1] : st \in MixStreams}

\* the frame of part p of message m from sender s
WrapperFrom(s, m, p) ==
    encode(Packet(gs_id, s,
                  multipart_payload(ReasmMsgs[m].json_str, ReasmMsgs[m].max_size, p)))

DeliverFrom(s, m, p) ==
    /\ Len(gs_log) < MaxDeliveries
    /\ GsHandle(OnAir(WrapperFrom(s, m, p), m, p, PartsOf(m)))
    /\ UNCHANGED <<sat_vars, to_gs, damaged, gs_id, satellite_address, cmds>>

InitMix == Init /\ sat_mode = "link" /\ ~reset_occurred

NextMix ==
    \E st \in MixStreams : \E p \in 1..PartsOf(st[2]) :
       DeliverFrom(st[1], st[2], p) /\ UNCHANGED <<ext_vars, radio_vars, sys_vars, host_vars>>

SpecMix == InitMix /\ [][NextMix]_vars

(***************************************************************************)
(* The packet codec: Packet.decode applied to raw byte strings of every    *)
(* length up to MaxFrameLen, then encode() applied to the packet.          *)
(***************************************************************************)
\* the byte values the strings are made of: both ends of the range and two
\* values whose sum wraps
CodecBytes == {0, 1, BYTE - 1}

RECURSIVE BytesOfLen(_)
BytesOfLen(n) ==
    IF n = 0 THEN {<<>>}
    ELSE {Append(b, x) : b \in BytesOfLen(n - 1), x \in CodecBytes}

CodecInputs == UNION {BytesOfLen(n) : n \in 0..MaxFrameLen}

\* Packet.decode(data)
CodecDecode ==
    /\ codec.pc = "raw"
    /\ codec' = [codec EXCEPT !.pc = "decoded", !.packet = decode(codec.data)]
    /\ UNCHANGED <<link_vars_but_ext, radio_vars, heartbeat_enabled, hb_pc, reg_vars, rx_vars>>

\* packet.encode() of the packet decode returned
CodecEncode ==
    /\ codec.pc = "decoded"
    /\ ~codec.packet.none
    /\ codec' = [codec EXCEPT !.pc = "encoded", !.encoded = encode(codec.packet)]
    /\ UNCHANGED <<link_vars_but_ext, radio_vars, heartbeat_enabled, hb_pc, reg_vars, rx_vars>>

InitCodec ==
    /\ InitBase /\ sat_mode = "link" /\ ~reset_occurred
    /\ AppInit
    /\ \E b \in CodecInputs : codec = [NoCodec EXCEPT !.pc = "raw", !.data = b]

NextCodec == CodecDecode \/ CodecEncode

SpecCodec == InitCodec /\ [][NextCodec]_vars

(***************************************************************************)
(* The ground station's heartbeat (src/manha/gs/gs.py): send_heartbeat     *)
(* tests heartbeat_enabled and calls LoRa.send_command("PING"), which      *)
(* enters `async with self._lock`; the console task sets the flag.  The    *)
(* other tasks of the two Links run as in the section on the modems.       *)
(***************************************************************************)
\* process_command("heartbeat on") / ("heartbeat off")
ConsoleHeartbeat(on) ==
    /\ heartbeat_enabled' = on
    /\ UNCHANGED <<link_vars_but_ext, radio_vars, codec, hb_pc, reg_vars, rx_vars>>

\* the PING of the heartbeat task is loaded into the FIFO
HbLoad ==
    /\ LinkSend("gs_hb", "cmd", "idle")
    /\ last_cmd' = [task |-> "gs_hb", loads |-> 1, tx_done |-> FALSE, ret |-> "pending"]

\* send_heartbeat wakes up: nothing when the flag is off; else send_command,
\* which loads the frame at once when the lock is free and waits for the
\* lock when it is held
HbWake ==
    /\ hb_pc = "sleep"
    /\ task["gs_hb"].pc = "idle"
    /\ heartbeat_enabled
    /\ IF lock_free("gs")
       THEN HbLoad /\ UNCHANGED hb_pc
       ELSE hb_pc' = "lock" /\ UNCHANGED radio_vars
    /\ UNCHANGED <<link_vars_but_ext, codec, heartbeat_enabled, reg_vars, rx_vars>>

\* the lock is released to the heartbeat task, which goes on inside
\* send_command
HbAcquire ==
    /\ hb_pc = "lock"
    /\ HbLoad
    /\ hb_pc' = "sleep"
    /\ UNCHANGED <<link_vars_but_ext, codec, heartbeat_enabled, reg_vars, rx_vars>>

InitHb == Init /\ sat_mode = "link" /\ ~reset_occurred

NextHb ==
    \/ \E on \in BOOLEAN : ConsoleHeartbeat(on)
    \/ HbWake
    \/ HbAcquire
    \/ PendingSend("gs_rx")
    \/ SatTelemetrySend
    \/ \E t \in {"gs_hb", "gs_rx", "sat_tlm"} : TxObserved(t)
    \/ \E t \in {"gs_hb", "gs_rx", "sat_tlm"} : TxTimedOut(t)
    \/ \E s \in Sides : ChipTxDone(s)
    \/ ReceiverTop("gs_rx")
    \/ ReceiverRecv("gs_rx")
    \/ ReceiverPollTimeout("gs_rx")
    \/ TlmListenMode
    \/ TlmListenRecv
    \/ TlmListenTimeout

SpecHb == InitHb /\ [][NextHb]_vars

(***************************************************************************)
(* Registered commands: MANHA.add_command / remove_command and             *)
(* LoRa.add_command_handler, and a CMD frame with the registered name      *)
(* heard by the satellite.                                                 *)
(***************************************************************************)
\* MANHA.add_command(command_name, callback)
AddCommand(name) ==
    /\ sat_mode = "manha"
    /\ commands' = commands \cup {name}
    /\ UNCHANGED <<link_vars_but_ext, radio_vars, codec, heartbeat_enabled, hb_pc,
                   command_handlers, invoked, rx_vars>>

\* MANHA.remove_command(command_name)
RemoveCommand(name) ==
    /\ sat_mode = "manha"
    /\ commands' = commands \ {name}
    /\ UNCHANGED <<link_vars_but_ext, radio_vars, codec, heartbeat_enabled, hb_pc,
                   command_handlers, invoked, rx_vars>>

\* LoRa.add_command_handler(command, handler)
AddCommandHandler(name) ==
    /\ sat_mode = "link"
    /\ command_handlers' = command_handlers \cup {name}
    /\ UNCHANGED <<link_vars_but_ext, radio_vars, codec, heartbeat_enabled, hb_pc,
                   commands, invoked, rx_vars>>

\* LoRa._handle_command: the handler of the application called for the
\* command of frame raw_data, if one is registered
handler_called(raw_data, handlers) ==
    LET packet == decode(raw_data)
        message == Strip(packet.message)
        command == Strip(Slice(message, 4, Len(message)))
    IN IF packet.none \/ ~is_valid_checksum(packet) THEN <<>>
       ELSE IF ~StartsWith(message, CMD_TAG) THEN <<>>
       ELSE IF command \in handlers \ {PING, RESET} THEN <<command>>
       ELSE <<>>

\* the Link's receiver loop reads a frame, with the handlers registered
SatReceiverRecvReg ==
    /\ SatReceiverRecv
    /\ invoked' = invoked \o handler_called(Head(to_sat).frame, command_handlers)
    /\ UNCHANGED <<radio_vars, host_vars, codec, heartbeat_enabled, hb_pc,
                   commands, command_handlers, rx_vars>>

RegFrames == {cmd_frame(c, LORA_ADDR, GS_ADDR) : c \in {BEEP, PING}}

InitReg == Init /\ ~reset_occurred

NextReg ==
    \/ AddCommand(BEEP)
    \/ RemoveCommand(BEEP)
    \/ AddCommandHandler(BEEP)
    \/ \E f \in RegFrames : Hear(f) /\ UNCHANGED <<ext_vars, radio_vars, sys_vars, host_vars>>
    \/ SatReceiverRecvReg
    \/ GsReceive /\ UNCHANGED <<ext_vars, radio_vars, sys_vars, host_vars>>
    \/ ManhaTlm(TRUE) /\ UNCHANGED <<ext_vars, radio_vars, sys_vars>>
    \/ ManhaAckRecv /\ UNCHANGED <<ext_vars, radio_vars, sys_vars>>
    \/ ManhaAckTimeout /\ UNCHANGED <<ext_vars, radio_vars, sys_vars>>
    \/ ManhaListenRecv /\ UNCHANGED <<radio_vars, ext_vars>>
    \/ ManhaListenTimeout /\ UNCHANGED <<ext_vars, radio_vars, sys_vars, host_vars>>

SpecReg == InitReg /\ [][NextReg]_vars

(***************************************************************************)
(* start_receiver, stop_receiver and _receiver_loop of a Link (the same    *)
(* code in src/manha/gs/lora.py and src/manha/satkit/lora.py).  The        *)
(* application calls them one after the other; a task created by           *)
(* asyncio.create_task begins when the scheduler gets to it.               *)
(***************************************************************************)
rx_others == <<link_vars_but_ext, radio_vars, codec, heartbeat_enabled, hb_pc, reg_vars>>

\* start_receiver(): nothing when _receiver_running; else the stop flag is
\* lowered and a task is created
StartReceiver ==
    /\ caller = "idle"
    /\ Len(loops) < MaxStarts
    /\ stopped' = FALSE
    /\ IF receiver_running THEN UNCHANGED <<stop_flag, loops>>
       ELSE stop_flag' = FALSE /\ loops' = Append(loops, "created")
    /\ UNCHANGED <<receiver_running, caller, rx_others>>

\* stop_receiver() up to its first await: the flag is raised; the call
\* returns at once when _receiver_running is False
StopReceiver ==
    /\ caller = "idle"
    /\ stop_flag' = TRUE
    /\ caller' = IF receiver_running THEN "stopping" ELSE "idle"
    /\ stopped' = ~receiver_running
    /\ UNCHANGED <<receiver_running, loops, rx_others>>

\* stop_receiver() wakes up from sleep_ms(10) and finds _receiver_running
\* False
StopReturns ==
    /\ caller = "stopping"
    /\ ~receiver_running
    /\ caller' = "idle"
    /\ stopped' = TRUE
    /\ UNCHANGED <<receiver_running, stop_flag, loops, rx_others>>

\* a created task begins: _receiver_running = True, then the test of the
\* outer loop; with the flag raised the task ends at once
LoopBegins(i) ==
    /\ loops[i] = "created"
    /\ receiver_running' = ~stop_flag
    /\ loops' = [loops EXCEPT ![i] = IF stop_flag THEN "done" ELSE "running"]
    /\ UNCHANGED <<stop_flag, caller, stopped, rx_others>>

\* a running loop comes back from an await (the poll, the frame handler,
\* the back-off after an exception), finds the flag raised in both loop
\* tests and ends: _receiver_running = False
LoopExits(i) ==
    /\ loops[i] = "running"
    /\ stop_flag
    /\ receiver_running' = FALSE
    /\ loops' = [loops EXCEPT ![i] = "done"]
    /\ UNCHANGED <<stop_flag, caller, stopped, rx_others>>

InitRx == Init

NextRx ==
    \/ StartReceiver
    \/ StopReceiver
    \/ StopReturns
    \/ \E i \in 1..Len(loops) : LoopBegins(i)
    \/ \E i \in 1..Len(loops) : LoopExits(i)

SpecRx == InitRx /\ [][NextRx]_vars

(***************************************************************************)
(* Properties.                                                             *)
(***************************************************************************)
RECURSIVE SumBytes(_, _, _)
\* the sum of the bytes f[lo..hi]
SumBytes(f, lo, hi) ==
    IF lo > hi THEN 0
    ELSE IF lo = hi THEN f[lo]
    ELSE LET mid == (lo + hi) \div 2
         IN SumBytes(f, lo, mid) + SumBytes(f, mid + 1, hi)

\* frame f has at least 3 bytes and its byte at offset 2 is the sum of its
\* payload bytes modulo 256
ChecksumOk(f) == Len(f) >= 3 /\ f[3] = SumBytes(f, 4, Len(f)) % 256

PayloadOf(f) == SubSeq(f, 4, Len(f))

\* C1: every frame handed to the modem by the satellite (telemetry frames,
\* multipart parts, command responses, MANHA telemetry) and by the ground
\* station (commands, ACKs) carries at offset 2 the sum of its payload bytes
\* modulo 256.
C1_EmittedChecksum ==
    /\ \A i \in 1..Len(sat_tx) : ChecksumOk(sat_tx[i].frame)
    /\ \A i \in 1..Len(gs_tx) : ChecksumOk(gs_tx[i])

\* both ends have sent: the ground station a command and an ACK, the satellite
\* a command response and the second part of a multipart message whose payload
\* sums to more than one byte
C1_Witness ==
    /\ \E i \in 1..Len(gs_tx) : StartsWith(PayloadOf(gs_tx[i]), CMD_TAG)
    /\ \E i \in 1..Len(gs_tx) : StartsWith(PayloadOf(gs_tx[i]), ACK_TAG)
    /\ \E i \in 1..Len(sat_tx) : sat_tx[i].part = -1
    /\ \E i \in 1..Len(sat_tx) :
          /\ sat_tx[i].part = 2
          /\ SumBytes(sat_tx[i].frame, 4, Len(sat_tx[i].frame)) >= 256

\* C2: an inbound frame shorter than 3 bytes or with a wrong checksum makes
\* the receiver (ground station _process_received_data; satellite
\* _process_received_data from the receiver loop and from _listen_for_packet,
\* MANHA _listen_for_commands) send nothing, invoke no callback and handle no
\* command; a wait that read it goes on waiting.
C2_InvalidDropped ==
    /\ \A i \in 1..Len(gs_log) :
          ~ChecksumOk(gs_log[i].frame) =>
             /\ gs_log[i].sent = <<>>
             /\ gs_log[i].tlm = <<>>
             /\ gs_log[i].rsp = <<>>
    /\ \A i \in 1..Len(sat_log) :
          (sat_log[i].where \in {"wait_ack", "receiver", "listen"}
             /\ ~ChecksumOk(sat_log[i].frame)) =>
             /\ sat_log[i].sent = <<>>
             /\ sat_log[i].handled = <<>>
             /\ sat_log[i].outcome \in {"waiting", "none"}

\* the satellite's receiver loop has read a command frame whose checksum byte
\* was changed on the air
C2_Witness ==
    \E i \in 1..Len(sat_log) :
       /\ sat_log[i].where = "receiver"
       /\ Len(sat_log[i].frame) >= 3
       /\ ~ChecksumOk(sat_log[i].frame)
       /\ StartsWith(PayloadOf(sat_log[i].frame), CMD_TAG)

\* the frame read by the wait of log entry e is a valid ACK for the part the
\* wait expects
MatchingAck(e) ==
    /\ ChecksumOk(e.frame)
    /\ Strip(PayloadOf(e.frame)) = ACK_TAG \o IntToStr(e.expected)

\* C3: a wait for the ACK of part p (satellite _wait_for_ack, MANHA
\* _wait_for_simple_ack) reports the part acknowledged exactly when the frame
\* it read is a valid ACK:p, and any other frame leaves it waiting for a
\* matching ACK that arrives later.
C3_AckIffMatching ==
    \A i \in 1..Len(sat_log) :
       sat_log[i].where \in {"wait_ack", "simple_ack"} =>
          /\ sat_log[i].outcome = "acked" <=> MatchingAck(sat_log[i])
          /\ ~MatchingAck(sat_log[i]) => sat_log[i].outcome = "waiting"

\* the frames of send c handed to the modem, in order
FramesOf(c) ==
    LET OfCall(x) == x.call = c IN SelectSeq(sat_tx, OfCall)

\* C4: in a multipart send_telemetry, when the wait for the ACK of part p
\* fails (a frame that is not ACK:p, or the deadline), send_telemetry has
\* returned failure at part p, no part after p was handed to the modem and
\* part p was handed to it once; the parts of a send go out in ascending order,
\* each once.
C4_AbortOnFailedAck ==
    /\ \A c \in 1..calls :
          \A k \in 1..Len(FramesOf(c)) :
             FramesOf(c)[k].part \in {0, k}
    /\ \A i \in 1..Len(sat_log) :
          (sat_mode = "link" /\ sat_log[i].outcome = "failed"
             /\ sat_log[i].expected >= 1) =>
             /\ \E j \in 1..Len(sat_results) :
                   /\ sat_results[j].call = sat_log[i].call
                   /\ ~sat_results[j].ok
                   /\ sat_results[j].at = sat_log[i].expected
             /\ Len(FramesOf(sat_log[i].call)) = sat_log[i].expected

\* the wait for the ACK of a part that is not the last one has failed
C4_Witness ==
    \E i \in 1..Len(sat_log) : \E j \in 1..Len(sat_results) :
       /\ sat_mode = "link"
       /\ sat_log[i].outcome = "failed"
       /\ sat_log[i].expected >= 1
       /\ sat_results[j].call = sat_log[i].call
       /\ sat_log[i].expected < sat_results[j].total

\* log entry e of the ground station is a valid telemetry frame: a frame of a
\* telemetry send, undamaged, whose payload is a JSON object
IsTelemetry(e) ==
    /\ e.call > 0
    /\ ChecksumOk(e.frame)
    /\ e.frame[4] = Ch.lbrace

\* C5: for every valid telemetry frame the ground station reads, whether
\* addressed to it or to broadcast 255, it sends exactly one ACK to the sender:
\* ACK:p for part p of a multipart message, ACK:0 for a single frame.
C5_OneAckPerTelemetry ==
    \A i \in 1..Len(gs_log) :
       IsTelemetry(gs_log[i]) =>
          gs_log[i].sent = <<ack_frame(gs_log[i].part, gs_log[i].frame[1], gs_id)>>

\* C6: after the ground station handled a multipart wrapper, the buffer entry
\* of its sender (or the message just delivered from it) holds parts of one
\* send only: parts left by a send that was abandoned are discarded when a
\* part of another send arrives.
C6_OneMessagePerBuffer ==
    \A i \in 1..Len(gs_log) : Cardinality(gs_log[i].used) <= 1

\* the deliveries so far are parts of one message, no part twice
OnePermutation ==
    /\ gs_log # <<>>
    /\ \A i \in 1..Len(gs_log) : gs_log[i].call = gs_log[1].call
    /\ \A i, j \in 1..Len(gs_log) : gs_log[i].part = gs_log[j].part => i = j

RECURSIVE JoinData(_, _)
\* d_p + ... + d_t of message m
JoinData(m, p) ==
    IF p > PartsOf(m) THEN <<>>
    ELSE part_data_of(ReasmMsgs[m].json_str, ReasmMsgs[m].max_size, p)
           \o JoinData(m, p + 1)

FirstSeen(i) ==
    \A j \in 1..(i - 1) :
       gs_log[j].call # gs_log[i].call \/ gs_log[j].part # gs_log[i].part

Last(S) == CHOOSE x \in S : \A y \in S : y <= x

\* repeats aside, the deliveries are the parts of one message after another:
\* each message in order, the next one begun when the one before is complete
Orderly ==
    \A i \in 1..Len(gs_log) :
       FirstSeen(i) =>
          LET prior == {j \in 1..(i - 1) : FirstSeen(j)} IN
          IF prior = {} THEN gs_log[i].part = 1
          ELSE \/ /\ gs_log[i].call = gs_log[Last(prior)].call
                  /\ gs_log[i].part = gs_log[Last(prior)].part + 1
               \/ /\ gs_log[i].call # gs_log[Last(prior)].call
                  /\ gs_log[i].part = 1
                  /\ gs_log[Last(prior)].part = gs_log[Last(prior)].total

\* C8: when parts are repeated, before or after their message completes, every
\* message the ground station delivers is the in-order concatenation of the
\* parts of one message.
C8_DuplicatesHarmless ==
    Orderly =>
       \A i \in 1..Len(gs_log) :
          gs_log[i].tlm # <<>> =>
             \E m \in 1..Len(ReasmMsgs) : gs_log[i].tlm[1].text = JoinData(m, 1)

\* the parts of send c that the ground station has read, valid, among its
\* first i frames
Received(c, i) ==
    {gs_log[j].part : j \in {k \in 1..i : gs_log[k].call = c
                                            /\ ChecksumOk(gs_log[k].frame)}}

\* C9: for the telemetry frames addressed to the ground station, the telemetry
\* callback is invoked on a multipart frame exactly when that frame is the last
\* missing part of its message, and once on every single-part frame.
C9_CallbackOncePerMessage ==
    \A i \in 1..Len(gs_log) :
       (IsTelemetry(gs_log[i]) /\ gs_log[i].frame[2] = gs_id) =>
          IF gs_log[i].total = 0 THEN Len(gs_log[i].tlm) = 1
          ELSE /\ Len(gs_log[i].tlm) <= 1
               /\ gs_log[i].tlm # <<>>
                    <=> Received(gs_log[i].call, i) = 1..gs_log[i].total

\* the parts the ground station acknowledged to send c, in order
AckedParts(c) ==
    LET Acked(e) == e.call = c /\ e.sent # <<>>
        es == SelectSeq(gs_log, Acked)
    IN [k \in 1..Len(es) |-> es[k].part]

\* C10: with no frame lost or damaged, every TX_DONE seen and no command on
\* the air, a multipart send_telemetry of text J that has returned has returned
\* True, the ground station has delivered the parse of J and has sent ACK:1,
\* ..., ACK:t in that order.
C10_LosslessMultipart ==
    \A j \in 1..Len(sat_results) :
       (sat_results[j].total >= 1 /\ damaged = 0 /\ tx_timeouts = 0 /\ cmds = 0) =>
          /\ sat_results[j].ok
          /\ \E i \in 1..Len(gs_log) :
                /\ gs_log[i].call = sat_results[j].call
                /\ gs_log[i].tlm = <<loads(sat_results[j].json_str)>>
          /\ AckedParts(sat_results[j].call) = [k \in 1..sat_results[j].total |-> k]

\* the least t with t * d >= n
CeilDiv(n, d) == CHOOSE t \in 0..n : t * d >= n /\ (t - 1) * d < n

\* the parsed payload of the k-th frame of F
WrapperOf(F, k) == loads(PayloadOf(F[k].frame))

RECURSIVE JoinFrames(_, _)
\* the data fields of the first k frames of F, concatenated in order
JoinFrames(F, k) ==
    IF k = 0 THEN <<>>
    ELSE JoinFrames(F, k - 1) \o Get(WrapperOf(F, k), KEY_DATA, <<>>)

\* C11: while send_telemetry(J, max_size) with max_size > 50 waits for an
\* ACK, the frames it handed to the modem are: one frame carrying J, the
\* ACK awaited being ACK:0, when len(J) <= max_size; otherwise the wrappers
\* _part = 1..p in ascending order for the part p awaited, p <= t =
\* ceil(len(J) / (max_size - 50)), each with _total = t and a data field of
\* at most max_size - 50 characters, whose concatenation is the first
\* min(p * (max_size - 50), len(J)) characters of J: all of J when p = t.
C11_Fragmentation ==
    (sat_mode = "link" /\ sat_pc = "wait_ack" /\ cur.max_size > RESERVED) =>
       LET J == cur.json_str
           F == FramesOf(cur.call)
           avail == cur.max_size - RESERVED
           t == CeilDiv(Len(J), avail)
       IN IF Len(J) <= cur.max_size
          THEN /\ Len(F) = 1
               /\ PayloadOf(F[1].frame) = J
               /\ cur.part_num = 0
          ELSE /\ Len(F) = cur.part_num
               /\ cur.part_num \in 1..t
               /\ \A k \in 1..Len(F) :
                     /\ WrapperOf(F, k).ok
                     /\ Get(WrapperOf(F, k), KEY_PART, -1) = k
                     /\ Get(WrapperOf(F, k), KEY_TOTAL, -1) = t
                     /\ Len(Get(WrapperOf(F, k), KEY_DATA, <<>>)) <= avail
               /\ JoinFrames(F, Len(F)) = SubSeq(J, 1, Min(Len(F) * avail, Len(J)))
               /\ Len(F) = t => JoinFrames(F, t) = J

\* the last of five full parts of a text whose length is a multiple of the
\* part size has been handed to the modem
C11_Witness ==
    /\ sat_pc = "wait_ack"
    /\ Len(cur.json_str) > cur.max_size
    /\ Len(cur.json_str) = 5 * (cur.max_size - RESERVED)
    /\ Len(FramesOf(cur.call)) = 5
    /\ cur.part_num = 5

\* C12: every frame handed to a modem's send, by the satellite Link
\* (telemetry frames, multipart wrappers, command responses) or by the ground
\* station Link (commands, ACKs), is at most 255 bytes long, header included.
C12_FrameFits ==
    /\ \A i \in 1..Len(sat_tx) : Len(sat_tx[i].frame) < BYTE
    /\ \A i \in 1..Len(gs_tx) : Len(gs_tx[i]) < BYTE

\* C13: whenever RFM9x.send writes the FIFO address pointer, the FIFO and
\* the payload length, the chip is in STDBY, whatever the receiver loops
\* and the other senders did before.
C13_FifoInStandby == last_load.side # "none" => last_load.chip = "STDBY"

\* a frame was loaded by a send that found the chip receiving
C13_Witness == last_load.side # "none" /\ last_load.before = "RXCONTINUOUS"

\* C14: when a task of a Link loads the FIFO, no other task of that Link
\* has a frame loaded for which it has neither seen TX_DONE nor timed out.
C14_Serialized == last_load.side # "none" => last_load.in_flight = {}

\* the heartbeat's frame is loaded and not yet seen sent while the ACK of
\* the ground station's receiver is waiting to be sent
C14_Witness ==
    /\ last_load.task = "gs_hb"
    /\ lock["gs"] = "gs_hb"
    /\ task["gs_rx"].pc = "send"

\* C15: the two chips are never in TX at the same time.
C15_NeverBothTx == ~(modem["gs"].chip = "TX" /\ modem["sat"].chip = "TX")

\* C16: every CMD:PING the satellite Link has handled was answered with one
\* frame whose payload is CMD:PONG followed by CRLF, and every text handed to
\* the ground station's command-response callback is PONG (PING is the only
\* command sent here).
C16_PingPong ==
    /\ \A i \in 1..Len(sat_log) :
          (sat_mode = "link" /\ sat_log[i].handled = <<PING>>) =>
             /\ Len(sat_log[i].sent) = 1
             /\ PayloadOf(sat_log[i].sent[1]) = CMD_TAG \o PONG \o CRLF
    /\ \A j \in 1..Len(gs_log) :
          gs_log[j].rsp # <<>> => gs_log[j].rsp = <<PONG>>

\* is the frame the acknowledgment of RESET?  (the Link sends CMD:RESET_ACK,
\* MANHA the bare text)
IsResetAck(frame) ==
    PayloadOf(frame) \in {CMD_TAG \o RESET_ACK \o CRLF, RESET_ACK}

\* C17: at every hardware reset that followed a RESET command the marker
\* had been written, and a RESET_ACK frame was handed to the modem after the
\* marker was written and before the reset.
C17_ResetOrder ==
    \A i \in 1..Len(boots) :
       /\ boots[i].marker
       /\ \E k \in (boots[i].marker_at + 1)..boots[i].at :
             IsResetAck(sat_tx[k].frame)

IsResetOk(frame) == PayloadOf(frame) = CMD_TAG \o RESET_OK \o CRLF

\* C18: while the CMD:RESET_OK of a boot that found the marker has not been
\* emitted the marker is still there; every telemetry frame sent after such
\* a boot has a CMD:RESET_OK frame between the boot and itself; and a
\* CMD:RESET_OK frame is sent only after a boot that found the marker.
C18_ResetOkThenDelete ==
    /\ reset_occurred => marker
    /\ \A i \in 1..Len(boots) : \A k \in (boots[i].at + 1)..Len(sat_tx) :
          (boots[i].marker /\ sat_tx[k].call # 0) =>
             \E j \in (boots[i].at + 1)..(k - 1) : IsResetOk(sat_tx[j].frame)
    /\ \A j \in 1..Len(sat_tx) :
          IsResetOk(sat_tx[j].frame) =>
             \E i \in 1..Len(boots) : boots[i].marker /\ boots[i].at < j

\* the power an amplifier state codes, by the driver's own arithmetic
Programmed(p) == p.out + PA_OFFSET + (IF p.dac THEN DAC_GAIN ELSE 0)

\* C19: after MANHA handled CMD:TXPOW=<n>: for 5 <= n <= 23 the modem is
\* programmed to n and the response is "TX power set to <n>dBm"; otherwise
\* the modem is as before and the response is "TX power must be between 5
\* and 23dBm".
C19_TxPow ==
    pow_call.on = "txpow" =>
       IF in_range(pow_call.n)
       THEN /\ Programmed(pow_call.after) = pow_call.n
            /\ pow_call.response = TX_POWER_SET \o IntToStr(pow_call.n) \o DBM
       ELSE /\ pow_call.after = pow_call.before
            /\ pow_call.response = TX_POWER_RANGE

\* C20: every call set_tx_power(n), on the driver or on a Link, ends
\* without error and leaves the modem programmed to min(23, max(5, n)).
C20_Clamps ==
    pow_call.on \in {"modem", "link"} =>
       /\ ~pow_call.error
       /\ Programmed(pow_call.after) = clamp(pow_call.n)

\* C21: after MANHA handled LPM=1 low_power_mode is true, after LPM=0 it is
\* false, after LPM= with any other value it is as before, and each time a
\* response text was produced.
C21_LpmCommand ==
    lpm_call.on =>
       /\ lpm_call.n = 1 => lpm_call.after
       /\ lpm_call.n = 0 => ~lpm_call.after
       /\ lpm_call.n \notin {0, 1} => lpm_call.after = lpm_call.before
       /\ lpm_call.response # <<>>

\* LPM=0 was handled while the mode was on
C21_Witness ==
    /\ lpm_call.on
    /\ lpm_call.n = 0
    /\ lpm_call.before
    /\ ~low_power_mode
    /\ lpm_call.response = LPM_DISABLED

\* C22: no LED fill and no non-essential sensor read happens while
\* low_power_mode is true.
C22_QuietInLowPower ==
    \A i \in 1..Len(activity) : ~activity[i].lpm

\* the k-th frame handed to the satellite modem carries a command response:
\* sent by _send_command_response, or MANHA's pending command_response
\* taking the place of the telemetry
IsResponse(k) ==
    \/ sat_tx[k].call = 0
    \/ sat_mode = "manha"
         /\ PayloadOf(sat_tx[k].frame) # prepare_telemetry(FALSE, <<>>)

\* C23: every command response handed to the satellite modem has the
\* payload CMD:<text> followed by CRLF, and the satellite never waits for an
\* acknowledgment of a command response.
C23_ResponseFraming ==
    /\ \A k \in 1..Len(sat_tx) :
          IsResponse(k) =>
             LET payload == PayloadOf(sat_tx[k].frame) IN
             /\ StartsWith(payload, CMD_TAG)
             /\ Len(payload) >= Len(CMD_TAG) + Len(CRLF)
             /\ Slice(payload, Len(payload) - Len(CRLF), Len(payload)) = CRLF
    /\ sat_pc = "simple_ack" => cur.json_str = prepare_telemetry(FALSE, <<>>)

\* the text of a CMD: payload: what follows the prefix, without the CRLF
\* that ends it
TextOf(payload) ==
    LET t == SubSeq(payload, Len(CMD_TAG) + 1, Len(payload))
        n == Len(t)
    IN IF n >= 2 /\ SubSeq(t, n - 1, n) = CRLF THEN SubSeq(t, 1, n - 2) ELSE t

C25_SendCommandOnce ==
    last_cmd.task # "none" =>
       /\ last_cmd.loads = 1
       /\ last_cmd.ret = "true" => last_cmd.tx_done
       /\ last_cmd.ret = "pending" =>
             /\ task[last_cmd.task].pc = "tx_wait"
             /\ task[last_cmd.task].kind = "cmd"
       /\ last_cmd.ret \in {"true", "false"} => task[last_cmd.task].pc # "tx_wait"

\* a command of the operator returned True: the chip had finished sending
\* its frame and the flag it read has been cleared
C25_Witness ==
    /\ last_cmd.task = "gs_cmd"
    /\ last_cmd.ret = "true"
    /\ last_cmd.tx_done
    /\ modem["gs"].fifo = "cmd"
    /\ "TX_DONE" \notin modem["gs"].irq

\* the frames with a valid checksum among those the ground station has read
ValidInbound == {j \in 1..Len(gs_log) : ChecksumOk(gs_log[j].frame)}

\* C26: when the ground station issues send_command with no target after it
\* has processed a valid inbound frame, the frame it hands to the modem is
\* addressed (byte 1) to the addr_from (byte 0) of the most recent valid
\* inbound frame.
C26_CommandToPeer ==
    [][(cmds' = cmds + 1 /\ ValidInbound # {}) =>
          LET j == CHOOSE x \in ValidInbound : \A y \in ValidInbound : y <= x
          IN gs_tx'[Len(gs_tx')][2] = gs_log[j].frame[1]]_vars

\* the frames with a valid checksum among those the satellite has read
ValidHeard == {i \in 1..Len(sat_log) : ChecksumOk(sat_log[i].frame)}

\* C27: the satellite Link's ground_station_address is unknown exactly as
\* long as no frame with a valid checksum has been processed; afterwards it
\* is the addr_from of the first such frame; and a telemetry send started
\* with no target while it is unknown is addressed to 255.
C27_PeerLearned ==
    /\ ValidHeard = {} => ground_station_address = -1
    /\ ValidHeard # {} =>
          LET i == CHOOSE x \in ValidHeard : \A y \in ValidHeard : x <= y
          IN ground_station_address = sat_log[i].frame[1]
    /\ (sat_pc = "wait_ack" /\ ground_station_address = -1) =>
          /\ cur.target_addr = BROADCAST
          /\ sat_tx[Len(sat_tx)].frame[2] = BROADCAST

\* an invalid frame and then valid frames of two senders were read: the
\* address is the first valid one's
C27_Witness ==
    /\ Len(sat_log) >= 3
    /\ ~ChecksumOk(sat_log[1].frame)
    /\ ChecksumOk(sat_log[2].frame)
    /\ ChecksumOk(sat_log[3].frame)
    /\ sat_log[2].frame[1] # sat_log[3].frame[1]
    /\ ground_station_address = sat_log[2].frame[1]
    /\ \E k \in 1..Len(sat_tx) : sat_tx[k].call > 0 /\ sat_tx[k].frame[2] = BROADCAST

\* C28: every frame handed to a modem has the sender's device_id in byte 0
\* and the target in byte 1: the sender of the frame answered for an ACK or
\* a command response, target_addr for telemetry.
C28_AddressBytes ==
    /\ \A k \in 1..Len(gs_tx) : gs_tx[k][1] = gs_id
    /\ \A k \in 1..Len(sat_tx) : sat_tx[k].frame[1] = sat_id
    /\ \A j \in 1..Len(gs_log) : \A n \in 1..Len(gs_log[j].sent) :
          gs_log[j].sent[n][2] = gs_log[j].frame[1]
    /\ \A i \in 1..Len(sat_log) : \A n \in 1..Len(sat_log[i].sent) :
          sat_log[i].sent[n][2] = sat_log[i].frame[1]
    /\ (sat_pc \in {"wait_ack", "simple_ack"} /\ sat_tx # <<>>) =>
          (sat_tx[Len(sat_tx)].call = cur.call =>
             sat_tx[Len(sat_tx)].frame[2] = cur.target_addr)

\* the ground station has sent an ACK and a command, the satellite Link a
\* command response, and a telemetry frame is waiting for its ACK
C28_Witness ==
    /\ \E j \in 1..Len(gs_log) : gs_log[j].sent # <<>>
    /\ \E k \in 1..Len(gs_tx) : StartsWith(PayloadOf(gs_tx[k]), CMD_TAG)
    /\ \E i \in 1..Len(sat_log) : sat_log[i].sent # <<>>
    /\ sat_pc = "wait_ack"
    /\ sat_tx[Len(sat_tx)].call = cur.call

\* C29: when the ground station reads a wrapper whose _part is greater than
\* its _total, the reassembly buffer stays as it was and no message is
\* delivered.
C29_OversizedDropped ==
    [][(Len(gs_log') = Len(gs_log) + 1
          /\ gs_log'[Len(gs_log')].part > gs_log'[Len(gs_log')].total
          /\ gs_log'[Len(gs_log')].total >= 1) =>
          /\ multipart_buffer' = multipart_buffer
          /\ last_telemetry' = last_telemetry
          /\ gs_log'[Len(gs_log')].tlm = <<>>]_vars

\* the buffered parts of sender s, if any
EntryOf(buf, s) == IF s \in DOMAIN buf THEN <<buf[s]>> ELSE <<>>

\* C30: with the streams of two senders interleaved, every delivered message
\* is the message of the sender of the frame that completed it, and handling
\* a frame of one sender (storing, completing, deleting its entry) leaves the
\* buffered parts of the other sender as they were.
C30_SendersApart ==
    /\ [](\A j \in 1..Len(gs_log) :
             gs_log[j].tlm # <<>> =>
                \E st \in MixStreams :
                   /\ st[1] = gs_log[j].frame[1]
                   /\ gs_log[j].tlm[1] = loads(ReasmMsgs[st[2]].json_str))
    /\ [][Len(gs_log') = Len(gs_log) + 1 =>
            \A t \in MixSenders \ {gs_log'[Len(gs_log')].frame[1]} :
               EntryOf(multipart_buffer', t) = EntryOf(multipart_buffer, t)]_vars

\* a message of one sender was completed between parts of the other sender,
\* whose parts are still buffered
C30_Witness ==
    /\ Len(gs_log) >= 3
    /\ gs_log[Len(gs_log)].tlm # <<>>
    /\ \E t \in MixSenders \ {gs_log[Len(gs_log)].frame[1]} :
          /\ t \in DOMAIN multipart_buffer
          /\ \E i, j, k \in 1..Len(gs_log) :
                /\ i < j /\ j < k
                /\ gs_log[i].frame[1] # t
                /\ gs_log[j].frame[1] = t
                /\ gs_log[k].frame[1] # t

\* C31: Packet.decode of fewer than 3 bytes is no packet; of 3 bytes or more
\* it is a packet whatever the checksum byte is, with the bytes after the
\* third as payload (none for exactly 3 bytes, whose checksum is 0), and
\* encode() of that packet gives back the same bytes.
C31_RoundTrip ==
    /\ codec.pc \in {"decoded", "encoded"} =>
          /\ codec.packet.none <=> Len(codec.data) < 3
          /\ Len(codec.data) = 3 =>
                /\ codec.packet.message = <<>>
                /\ calculate_checksum(codec.packet.message) = 0
          /\ Len(codec.data) >= 3 =>
                /\ codec.packet.addr_from = codec.data[1]
                /\ codec.packet.addr_to = codec.data[2]
                /\ codec.packet.checksum = codec.data[3]
                /\ Len(codec.packet.message) = Len(codec.data) - 3
    /\ codec.pc = "encoded" => codec.encoded = codec.data

\* a frame with a payload and a wrong checksum byte went through the round trip
C31_Witness ==
    /\ codec.pc = "encoded"
    /\ Len(codec.data) > 3
    /\ ~ChecksumOk(codec.data)

\* C32: the heartbeat task loads a PING frame into the modem only in a
\* state where heartbeat_enabled, off at the start and set by the console
\* commands `heartbeat on` and `heartbeat off`, is on.
C32_HeartbeatGate ==
    [][(task["gs_hb"].pc # "tx_wait" /\ task'["gs_hb"].pc = "tx_wait")
          => heartbeat_enabled]_vars

\* the task that holds the lock of side s with its frame loaded and neither
\* TX_DONE seen nor the deadline passed, if any
InFlight(s) == {t \in Tasks : SideOf(t) = s /\ lock[s] = t /\ task[t].pc = "tx_wait"}

\* C33: while a send holds the lock of a Link with its frame loaded, the
\* modem of that Link is not switched to RXCONTINUOUS, and its TX_DONE flag
\* is cleared only by the step in which the sender itself reads it.
C33_SendUndisturbed ==
    [][\A s \in Sides : \A t \in InFlight(s) :
          /\ modem[s].mode # "RXCONTINUOUS" => modem'[s].mode # "RXCONTINUOUS"
          /\ ("TX_DONE" \in modem[s].irq /\ "TX_DONE" \notin modem'[s].irq)
                => task'[t].pc # "tx_wait"]_vars

\* C34: every frame with a valid checksum and a payload starting with CMD:
\* that the satellite has read, in the listen window, in the receiver loop or
\* in the wait for an ACK, was handed to command processing, once.
C34_CommandDispatched ==
    \A i \in 1..Len(sat_log) :
       (sat_log[i].where # "deadline" /\ ChecksumOk(sat_log[i].frame)
          /\ StartsWith(PayloadOf(sat_log[i].frame), CMD_TAG))
       => Len(sat_log[i].handled) = 1

\* the names registered on the satellite: with MANHA, or with the Link
Registered == IF sat_mode = "manha" THEN commands ELSE command_handlers

\* C35: when the satellite handles a CMD frame whose command is BEEP, the
\* handler registered under that name is called if the name is registered at
\* that time, and no handler is called if it is not (never registered, or
\* removed).
C35_RegisteredDelivered ==
    [][(Len(sat_log') = Len(sat_log) + 1
          /\ sat_log'[Len(sat_log')].handled = <<BEEP>>) =>
          invoked' = IF BEEP \in Registered THEN Append(invoked, BEEP)
                     ELSE invoked]_vars

\* this step ends a wait of task t by its deadline: the wait for TX_DONE
\* after a send, the receiver loop's 1000 ms poll for RX_DONE, or the wait
\* for the ACK
WaitTimedOut(t) ==
    \/ /\ task[t].pc = "tx_wait"
       /\ task'[t].pc # "tx_wait"
       /\ "TX_DONE" \notin modem[SideOf(t)].irq
    \/ /\ task[t].pc \in {"rx_poll", "ack_wait"}
       /\ task'[t].pc # task[t].pc
       /\ "RX_DONE" \notin modem[SideOf(t)].irq

\* C36: when a wait on TX_DONE or RX_DONE ends by its deadline, the modem is
\* in STDBY (chip and RFM9x._mode) when the wait returns.
C36_TimeoutToStandby ==
    [][\A t \in Tasks :
          WaitTimedOut(t) =>
             /\ modem'[SideOf(t)].chip = "STDBY"
             /\ modem'[SideOf(t)].mode = "STDBY"]_vars

\* C37: an ACK frame the satellite's modem has received while the telemetry
\* send waits for its ACK is read (recv_data) by the waiting send, which
\* then leaves the wait, and not by the receiver loop.
C37_AckToWaiter ==
    [][(/\ sat_mode = "link"
        /\ task["sat_tlm"].pc = "ack_wait"
        /\ "RX_DONE" \in modem["sat"].irq
        /\ modem["sat"].rx = "ack"
        /\ modem'["sat"].rx = "none")
          => task'["sat_tlm"].pc # "ack_wait"]_vars

\* the _receiver_loop tasks that are inside their loop
ActiveLoops == {i \in 1..Len(loops) : loops[i] = "running"}

\* C38: at most one _receiver_loop task is active.
C38_OneReceiver == Cardinality(ActiveLoops) <= 1

\* C39: once stop_receiver has returned, and until start_receiver is called
\* again, no _receiver_loop task is inside its loop.
C39_StoppedMeansNone == stopped => ActiveLoops = {}

\* C40: while low_power_mode is what the latest LPM=1 or LPM=0 command set it
\* to, it changes only in a step that handles an LPM command asking for the
\* other mode.
C40_CommandedModeKept ==
    [][(/\ lpm_call.on
        /\ lpm_call.n \in {0, 1}
        /\ low_power_mode = (lpm_call.n = 1)
        /\ low_power_mode' # low_power_mode)
          => /\ Len(sat_log') = Len(sat_log) + 1
             /\ StartsWith(sat_log'[Len(sat_log')].handled[1], LPM_TAG)
             /\ lpm_call'.n = (IF low_power_mode' THEN 1 ELSE 0)]_vars

====
